---- MODULE Spec2Model ----
(***************************************************************************)
(* Model of the end-to-end encrypted chat: the signaling relay             *)
(* (/api/signal), the signed "delete for everyone" flow (/api/delete,      *)
(* lib/delete-message.ts, components/chat-room.tsx) and the in-memory      *)
(* store (lib/db.ts) they run on.                                          *)
(***************************************************************************)
EXTENDS Integers, Sequences, FiniteSets, TLC

(***************************************************************************)
(* Bounds of the model                                                     *)
(***************************************************************************)
MaxSignals == 2
MaxTicks == 3
MaxMessages == 1
MaxDeletes == 2
MaxKeySets == 3
MaxEncryptions == 2
MaxPaged == 3
MaxFetched == 3
MaxLinks == 1
MaxSessions == 3

(***************************************************************************)
(* Program constants and the demo data the store starts with               *)
(***************************************************************************)
SIGNAL_TTL_MS == 30000

Null == "null"

Users == {"u1", "u2", "u3"}

Chats == {"c1", "c2"}

\* storage.chatMembers after initDemoData: chat-1 = {demo, alice},
\* chat-2 = {demo, alice, bob}
chatMembers ==
  {<<"c1", "u1">>, <<"c1", "u2">>, <<"c2", "u1">>, <<"c2", "u2">>, <<"c2", "u3">>}

validTypes == {"offer", "answer", "ice-candidate"}

\* the clock advances in steps of half a TTL, so that "exactly at expiry"
\* is a time the model reaches
TickMs == SIGNAL_TTL_MS \div 2

\* Date.now() at start-up: a positive number of milliseconds
StartMs == TickMs

MaxTime == StartMs + MaxTicks * TickMs

\* two request slots: the handlers of two requests can be in flight together
Procs == {"p1", "p2"}

VARIABLES
  now,            \* wall clock, ms (Date.now())
  signalEvents,   \* storage.signalEvents: records in Map insertion order
  nextId,         \* number of ids generateId has handed out
  inflight,       \* per request slot: position and locals of a handler in flight
  delivered,      \* history: id -> number of fetch responses that carried it
  last,           \* history: the most recent response of /api/signal
  messages,       \* storage.messages: records in Map insertion order
  deleteEvents,   \* storage.deleteEvents: records in Map insertion order
  publicKey,      \* storage.users: user id -> published signing key, or Null
  data,           \* per client: the deleteEvents of its latest /api/messages poll
  deletedMessageIds, \* per client: the ChatRoom state of that name
  applied,        \* history: the marks processDeletes made, verified or not
  received,       \* history: per user, the ids of the delete records it was sent
  creq,           \* history: the request the chat room sent in the latest step
  dlast,          \* history: the most recent response of /api/messages, /api/delete
  sv,             \* a delete record being created, altered and verified
  localMessageStore, \* the keys of the client's Map of local messages
  onDeleteCalls,  \* the message ids onDelete has been called with, in order
  pd,             \* the latest call of processDeleteEvents and what it returned
  call,           \* per endpoint: the VideoCall component and its startCall
  clast,          \* history: the latest poll of a VideoCall and what it yielded
  idb,            \* IndexedDB SecureChatKeys/cryptoKeys: the record "primary", if any
  hook,           \* per useCrypto instance: its state and where its calls are
  keysGenerated,  \* number of key sets crypto.subtle.generateKey has made
  klast,          \* history: the latest initializeKeys / handleReset that ended
  engine,         \* the JavaScript engine the client runs on
  sealed,         \* the latest encryptMessage call and what it returned
  opened,         \* the decryptMessage call since the latest encryption, if any
  drawn,          \* number of nonces crypto.getRandomValues has given
  chats,          \* storage.chats: chat id -> updatedAt
  pager,          \* a client paging through a chat with nextCursor
  callee,         \* the VideoCall component of u2 running handleIncomingCall
  alast,          \* history: what the callee did in the latest step
  room,           \* the ChatRoom's messages and its decryptedMessages map
  auth            \* storage.sessions and magicLinks, the requests of
                  \* /api/auth in flight, and a browser's cookies

relayVars == <<signalEvents, nextId, inflight, delivered, last>>

deleteVars ==
  <<messages, deleteEvents, publicKey, data, deletedMessageIds, applied, received, creq,
    dlast>>

signVars == <<sv>>

libVars == <<localMessageStore, onDeleteCalls, pd>>

callVars == <<call, clast>>

keyVars == <<idb, hook, keysGenerated, klast>>

cryptoVars == <<engine, sealed, opened, drawn>>

calleeVars == <<callee, alast>>

\* what the actions of each part leave alone
notRelay ==
  <<deleteVars, chats, pager, signVars, libVars, callVars, keyVars, cryptoVars,
    calleeVars, room, auth>>

\* the actions on messages and delete records say themselves what they do
\* to chats and pager
notDelete == <<relayVars, signVars, libVars, callVars, keyVars, cryptoVars, calleeVars, room, auth>>

notSign ==
  <<relayVars, deleteVars, chats, pager, libVars, callVars, keyVars, cryptoVars,
    calleeVars, room, auth>>

notLib ==
  <<relayVars, deleteVars, chats, pager, signVars, callVars, keyVars, cryptoVars,
    calleeVars, room, auth>>

\* what the call screen leaves alone besides the relay
notCall ==
  <<deleteVars, chats, pager, signVars, libVars, keyVars, cryptoVars, calleeVars, room, auth>>

\* what the answering side leaves alone besides the relay
notCallee ==
  <<deleteVars, chats, pager, signVars, libVars, callVars, keyVars, cryptoVars, room,
    auth>>

notKey ==
  <<relayVars, deleteVars, chats, pager, signVars, libVars, callVars, cryptoVars,
    calleeVars, room, auth>>

notCrypto ==
  <<relayVars, deleteVars, chats, pager, signVars, libVars, callVars, keyVars,
    calleeVars, room, auth>>

\* what the chat room's decryption leaves alone besides the hook
notRoom ==
  <<relayVars, deleteVars, chats, pager, signVars, libVars, callVars, cryptoVars,
    calleeVars, auth>>

notAuth ==
  <<relayVars, deleteVars, chats, pager, signVars, libVars, callVars, keyVars,
    cryptoVars, calleeVars, room>>

vars ==
  <<now, relayVars, deleteVars, chats, pager, signVars, libVars, callVars, keyVars,
    cryptoVars, calleeVars, room, auth>>

(***************************************************************************)
(* Helpers                                                                 *)
(***************************************************************************)
Range(s) == {s[i] : i \in 1 .. Len(s)}

Ids(s) == {s[i].id : i \in 1 .. Len(s)}

IsMember(chatId, userId) == <<chatId, userId>> \in chatMembers

\* mutant: the comparator reversed (b.createdAt - a.createdAt)
RECURSIVE InsertByCreatedAtDesc(_, _)
InsertByCreatedAtDesc(s, e) ==
  IF s = <<>> THEN <<e>>
  ELSE IF s[Len(s)].createdAt >= e.createdAt THEN Append(s, e)
  ELSE Append(InsertByCreatedAtDesc(SubSeq(s, 1, Len(s) - 1), e), s[Len(s)])

\* Array.prototype.sort((a, b) => a.createdAt - b.createdAt): a stable sort,
\* written as an insertion sort that keeps equal keys in their given order
RECURSIVE InsertByCreatedAt(_, _)
InsertByCreatedAt(s, e) ==
  IF s = <<>> THEN <<e>>
  ELSE IF s[Len(s)].createdAt <= e.createdAt THEN Append(s, e)
  ELSE Append(InsertByCreatedAt(SubSeq(s, 1, Len(s) - 1), e), s[Len(s)])

RECURSIVE SortByCreatedAtAsc(_)
SortByCreatedAtAsc(s) ==
  IF s = <<>> THEN <<>>
  ELSE InsertByCreatedAt(SortByCreatedAtAsc(SubSeq(s, 1, Len(s) - 1)), s[Len(s)])

(***************************************************************************)
(* db.signalEvent                                                          *)
(***************************************************************************)
\* mutant: expiresAt: {gte} in place of {gt}
SignalMatchesGte(e, chatId, userId, t) ==
  /\ e.chatId = chatId
  /\ e.toUserId = userId
  /\ e.consumed = FALSE
  /\ e.expiresAt >= t

SignalMatches(e, chatId, userId, t) ==
  /\ e.chatId = chatId
  /\ e.toUserId = userId
  /\ e.consumed = FALSE
  /\ e.expiresAt > t

\* findMany({where: {chatId, toUserId, consumed: false, expiresAt: {gt}},
\*           orderBy: {createdAt: "asc"}})
FindSignals(store, chatId, userId, t) ==
  SortByCreatedAtAsc(SelectSeq(store, LAMBDA e : SignalMatches(e, chatId, userId, t)))

\* mutant: the update ignores its where clause and matches every record
MarkConsumedAll(store, ids) ==
  [i \in 1 .. Len(store) |-> [store[i] EXCEPT !.consumed = TRUE]]

\* mutant: the update matches no record
MarkConsumedNone(store, ids) == store

\* updateMany({where: {id: {in: ids}}, data: {consumed: true}})
MarkConsumed(store, ids) ==
  [i \in 1 .. Len(store) |->
     IF store[i].id \in ids THEN [store[i] EXCEPT !.consumed = TRUE] ELSE store[i]]

\* create({data}): id from generateId, createdAt = new Date()
CreateSignal(store, id, chatId, fromUserId, toUserId, type, payload, t) ==
  Append(store,
         [id |-> id, chatId |-> chatId, fromUserId |-> fromUserId,
          toUserId |-> toUserId, type |-> type, payload |-> payload,
          createdAt |-> t, expiresAt |-> t + SIGNAL_TTL_MS, consumed |-> FALSE])

\* mutant: only records that were fetched are purged
DeleteExpiredConsumed(store, t) ==
  SelectSeq(store, LAMBDA e : ~(e.expiresAt < t /\ e.consumed))

\* deleteMany({where: {expiresAt: {lt: t}}})
DeleteExpired(store, t) == SelectSeq(store, LAMBDA e : ~(e.expiresAt < t))

\* the body of a fetch response: ids, times and the flag are not sent
SignalBody(recs) ==
  [i \in 1 .. Len(recs) |->
     [type |-> recs[i].type, payload |-> recs[i].payload,
      fromUserId |-> recs[i].fromUserId, toUserId |-> recs[i].toUserId,
      chatId |-> recs[i].chatId]]

(***************************************************************************)
(* Responses (history)                                                     *)
(***************************************************************************)
NoResponse ==
  [flip |-> 0, op |-> "none", user |-> Null, chat |-> Null, to |-> Null,
   type |-> Null, status |-> 0, error |-> Null, at |-> 0, recs |-> <<>>,
   signals |-> <<>>]

Response(op, user, chat, to, type, status, error, at, recs) ==
  [flip |-> 1 - last.flip, op |-> op, user |-> user, chat |-> chat, to |-> to,
   type |-> type, status |-> status, error |-> error, at |-> at, recs |-> recs,
   signals |-> SignalBody(recs)]

Respond(r) == last' = r

CountDelivered(recs) ==
  [id \in DOMAIN delivered |->
     IF id \in Ids(recs) THEN delivered[id] + 1 ELSE delivered[id]]

Idle ==
  [pc |-> "idle", user |-> Null, chat |-> Null, to |-> Null, type |-> Null,
   at |-> 0, recs |-> <<>>]

(***************************************************************************)
(* GET /api/signal                                                         *)
(***************************************************************************)
\* the outcome of the checks that precede the query
FetchStatus(userId, chatId) ==
  IF userId = Null THEN [status |-> 401, error |-> "Unauthorized"]
  ELSE IF chatId = Null THEN [status |-> 400, error |-> "Chat ID required"]
  ELSE IF ~IsMember(chatId, userId) THEN [status |-> 403, error |-> "Access denied"]
  ELSE [status |-> 200, error |-> Null]

\* mutant: the mailbox is the one named by the userId parameter of the url
MailboxOfParam(userId, userIdParam) ==
  IF userIdParam # Null THEN userIdParam ELSE userId

\* toUserId of the query: the authenticated user; the userId parameter of
\* the url is never read
MailboxOf(userId, userIdParam) == userId

\* the whole handler, run without interruption, for a request of the
\* authenticated user userId whose url carries userIdParam (Null: none): its
\* effect on the store and its response; the response's to-field records
\* the parameter (history)
FetchRequest(userId, chatId, userIdParam) ==
  LET chk == FetchStatus(userId, chatId)
      signals == FindSignals(signalEvents, chatId, MailboxOf(userId, userIdParam), now)
  IN /\ IF chk.status # 200
          THEN /\ Respond(Response("fetch_signals", userId, chatId, userIdParam, Null,
                                   chk.status, chk.error, now, <<>>))
               /\ UNCHANGED <<signalEvents, delivered>>
          ELSE /\ signalEvents' = IF Len(signals) > 0
                                    THEN MarkConsumed(signalEvents, Ids(signals))
                                    ELSE signalEvents
               /\ delivered' = CountDelivered(signals)
               /\ Respond(Response("fetch_signals", userId, chatId, userIdParam, Null,
                                   200, Null, now, signals))

\* the handler for a request without the parameter
FetchHandler(userId, chatId) == FetchRequest(userId, chatId, Null)

FetchSignalsFor(userId, chatId, userIdParam) ==
  /\ FetchRequest(userId, chatId, userIdParam)
  /\ UNCHANGED <<now, nextId, inflight, notRelay>>

FetchSignals(userId, chatId) ==
  /\ FetchHandler(userId, chatId)
  /\ UNCHANGED <<now, nextId, inflight, notRelay>>

(***************************************************************************)
(* POST /api/signal                                                        *)
(***************************************************************************)
\* mutant: the membership of the to-user is not checked
PostStatusNoTargetCheck(userId, chatId, toUserId, type, payload) ==
  IF userId = Null THEN [status |-> 401, error |-> "Unauthorized"]
  ELSE IF type = Null \/ payload = Null \/ chatId = Null
    THEN [status |-> 400, error |-> "Type, payload, and chatId are required"]
  ELSE IF type \notin validTypes THEN [status |-> 400, error |-> "Invalid signal type"]
  ELSE IF ~IsMember(chatId, userId) THEN [status |-> 403, error |-> "Access denied"]
  ELSE [status |-> 200, error |-> Null]

PostStatus(userId, chatId, toUserId, type, payload) ==
  IF userId = Null THEN [status |-> 401, error |-> "Unauthorized"]
  ELSE IF type = Null \/ payload = Null \/ chatId = Null
    THEN [status |-> 400, error |-> "Type, payload, and chatId are required"]
  ELSE IF type \notin validTypes THEN [status |-> 400, error |-> "Invalid signal type"]
  ELSE IF ~IsMember(chatId, userId) THEN [status |-> 403, error |-> "Access denied"]
  ELSE IF toUserId # Null /\ ~IsMember(chatId, toUserId)
    THEN [status |-> 400, error |-> "Target user not in chat"]
  ELSE [status |-> 200, error |-> Null]

\* the whole handler: its effect on the store and its response
PostHandler(userId, chatId, toUserId, type, payload) ==
  LET chk == PostStatus(userId, chatId, toUserId, type, payload)
  IN /\ IF chk.status # 200
          THEN /\ Respond(Response("post_signal", userId, chatId, toUserId, type,
                                   chk.status, chk.error, now, <<>>))
               /\ UNCHANGED <<signalEvents, nextId>>
          ELSE /\ nextId < MaxSignals
               /\ nextId' = nextId + 1
               /\ signalEvents' =
                    DeleteExpired(CreateSignal(signalEvents, nextId + 1, chatId, userId,
                                               toUserId, type, payload, now), now)
               /\ Respond(Response("post_signal", userId, chatId, toUserId, type,
                                   200, Null, now, <<>>))

PostSignal(userId, chatId, toUserId, type, payload) ==
  /\ PostHandler(userId, chatId, toUserId, type, payload)
  /\ UNCHANGED <<now, inflight, delivered, notRelay>>

(***************************************************************************)
(* The same two handlers as they run when requests overlap: a handler      *)
(* gives up control at each await, here between its two store calls        *)
(***************************************************************************)
\* GET up to and including `await db.signalEvent.findMany(...)`
GetFind(p, userId, chatId) ==
  LET chk == FetchStatus(userId, chatId)
  IN /\ inflight[p].pc = "idle"
     /\ IF chk.status # 200
          THEN /\ Respond(Response("fetch_signals", userId, chatId, Null, Null,
                                   chk.status, chk.error, now, <<>>))
               /\ UNCHANGED inflight
          ELSE /\ inflight' =
                    [inflight EXCEPT ![p] =
                       [pc |-> "get_mark", user |-> userId, chat |-> chatId,
                        to |-> Null, type |-> Null, at |-> now,
                        recs |-> FindSignals(signalEvents, chatId, userId, now)]]
               /\ UNCHANGED last
     /\ UNCHANGED <<now, signalEvents, nextId, delivered, notRelay>>

\* GET from `if (signals.length > 0)` to the response
GetMark(p) ==
  LET f == inflight[p]
  IN /\ f.pc = "get_mark"
     /\ signalEvents' = IF Len(f.recs) > 0
                          THEN MarkConsumed(signalEvents, Ids(f.recs))
                          ELSE signalEvents
     /\ delivered' = CountDelivered(f.recs)
     /\ Respond(Response("fetch_signals", f.user, f.chat, Null, Null, 200, Null,
                         f.at, f.recs))
     /\ inflight' = [inflight EXCEPT ![p] = Idle]
     /\ UNCHANGED <<now, nextId, notRelay>>

\* POST up to and including `await db.signalEvent.create(...)`
PostCreate(p, userId, chatId, toUserId, type, payload) ==
  LET chk == PostStatus(userId, chatId, toUserId, type, payload)
  IN /\ inflight[p].pc = "idle"
     /\ IF chk.status # 200
          THEN /\ Respond(Response("post_signal", userId, chatId, toUserId, type,
                                   chk.status, chk.error, now, <<>>))
               /\ UNCHANGED <<signalEvents, nextId, inflight>>
          ELSE /\ nextId < MaxSignals
               /\ nextId' = nextId + 1
               /\ signalEvents' = CreateSignal(signalEvents, nextId + 1, chatId, userId,
                                               toUserId, type, payload, now)
               /\ inflight' =
                    [inflight EXCEPT ![p] =
                       [pc |-> "post_cleanup", user |-> userId, chat |-> chatId,
                        to |-> toUserId, type |-> type, at |-> now, recs |-> <<>>]]
               /\ UNCHANGED last
     /\ UNCHANGED <<now, delivered, notRelay>>

\* POST from `await db.signalEvent.deleteMany(...)` to the response
PostCleanup(p) ==
  LET f == inflight[p]
  IN /\ f.pc = "post_cleanup"
     /\ signalEvents' = DeleteExpired(signalEvents, now)
     /\ Respond(Response("post_signal", f.user, f.chat, f.to, f.type, 200, Null,
                         f.at, <<>>))
     /\ inflight' = [inflight EXCEPT ![p] = Idle]
     /\ UNCHANGED <<now, nextId, delivered, notRelay>>

(***************************************************************************)
(* Time                                                                    *)
(***************************************************************************)
Tick ==
  /\ now + TickMs <= MaxTime
  /\ now' = now + TickMs
  /\ UNCHANGED <<relayVars, notRelay>>

(***************************************************************************)
(* Keys, signatures and the canonical encoding                             *)
(***************************************************************************)
\* the signing key pair of each user's device (generateSigningKeyPair) and
\* its exported public half (exportedPublicKey)
PrivateKeys == {"sk1", "sk2", "sk3"}

PublicKeys == {"pk1", "pk2", "pk3"}

SigningKeyOf(userId) ==
  CASE userId = "u1" -> "sk1" [] userId = "u2" -> "sk2" [] OTHER -> "sk3"

PublicKeyOf(sk) == CASE sk = "sk1" -> "pk1" [] sk = "sk2" -> "pk2" [] OTHER -> "pk3"

PrivateKeyOf(pk) == CASE pk = "pk1" -> "sk1" [] pk = "pk2" -> "sk2" [] OTHER -> "sk3"

\* JSON.stringify of a string, of a number, and of a Date (toJSON gives an
\* ISO-8601 string, written here as T<ms>Z)
JsonString(str) == "\"" \o str \o "\""

JsonNumber(n) == ToString(n)

JsonDate(ms) == JsonString("T" \o ToString(ms) \o "Z")

\* JSON.stringify({messageId, chatId, senderId, timestamp}); the timestamp is
\* given as the JSON text of whatever value the field holds
DeleteEventJson(messageId, chatId, senderId, timestampJson) ==
  "{" \o JsonString("messageId") \o ":" \o JsonString(messageId) \o ","
      \o JsonString("chatId") \o ":" \o JsonString(chatId) \o ","
      \o JsonString("senderId") \o ":" \o JsonString(senderId) \o ","
      \o JsonString("timestamp") \o ":" \o timestampJson \o "}"

\* JSON.stringify({messageId, senderId}) of the chat room
ChatRoomDeleteJson(messageId, senderId) ==
  "{" \o JsonString("messageId") \o ":" \o JsonString(messageId) \o ","
      \o JsonString("senderId") \o ":" \o JsonString(senderId) \o "}"

\* crypto.subtle.sign (ECDSA P-256 / SHA-256), base64: an unforgeable
\* signature is determined by the key and the signed bytes
signData(dataToSign, privateKey) == "sig(" \o privateKey \o "," \o dataToSign \o ")"

\* importPublicKey throws on anything that is not an exported key
CanImportPublicKey(base64Key) == base64Key \in PublicKeys

\* crypto.subtle.verify: true exactly for the signature the matching private
\* key makes over the same bytes
verifySignature(dataToVerify, signature, pk) ==
  signature = signData(dataToVerify, PrivateKeyOf(pk))

(***************************************************************************)
(* lib/delete-message.ts                                                   *)
(***************************************************************************)
\* a DeleteControlMessage; timestamp holds the JSON text of the field's value
createDeleteEvent(messageId, chatId, senderId, signingPrivateKey, t) ==
  [messageId |-> messageId, chatId |-> chatId, senderId |-> senderId,
   signature |-> signData(DeleteEventJson(messageId, chatId, senderId, JsonNumber(t)),
                          signingPrivateKey),
   timestamp |-> JsonNumber(t)]

\* strings with a character outside the base64 alphabet: atob throws on them
NotBase64 == {"not base64!", "not a key!"}

\* the try block of verifyDeleteEvent: importPublicKey throws on a string
\* that is not base64 or not an exported key, verifySignature throws (atob)
\* on a signature that is not base64; threw: an exception left the block
TryVerifyDeleteEvent(deleteEvent, senderPublicKeyBase64) ==
  IF senderPublicKeyBase64 \in NotBase64 \/ ~CanImportPublicKey(senderPublicKeyBase64)
    THEN [threw |-> TRUE, value |-> FALSE]
  ELSE IF deleteEvent.signature \in NotBase64 THEN [threw |-> TRUE, value |-> FALSE]
  ELSE [threw |-> FALSE,
        value |-> verifySignature(DeleteEventJson(deleteEvent.messageId,
                                                  deleteEvent.chatId,
                                                  deleteEvent.senderId,
                                                  deleteEvent.timestamp),
                                  deleteEvent.signature, senderPublicKeyBase64)]

\* mutant: no catch, the exception leaves the function
CatchRethrow(outcome) == outcome

\* catch (error) { console.error(...); return false }
Catch(outcome) == IF outcome.threw THEN [threw |-> FALSE, value |-> FALSE] ELSE outcome

\* how a call of verifyDeleteEvent ends: with an exception (threw) or with
\* the value returned
verifyDeleteEventOutcome(deleteEvent, senderPublicKeyBase64) ==
  Catch(TryVerifyDeleteEvent(deleteEvent, senderPublicKeyBase64))

\* mutant: the timestamp is taken anew (Date.now()) when verifying
verifyDeleteEventRecomputed(deleteEvent, senderPublicKeyBase64) ==
  verifyDeleteEventOutcome([deleteEvent EXCEPT !.timestamp = JsonNumber(now)],
                           senderPublicKeyBase64).value

\* the value verifyDeleteEvent returns
verifyDeleteEvent(deleteEvent, senderPublicKeyBase64) ==
  verifyDeleteEventOutcome(deleteEvent, senderPublicKeyBase64).value

(***************************************************************************)
(* db.message, db.deleteEvent, db.user                                     *)
(***************************************************************************)
MessageId(n) == "m" \o ToString(n)

\* db.message.findUnique({where: {id}}): the record, or Null
FindMessage(store, messageId) ==
  IF \E i \in 1 .. Len(store) : store[i].id = messageId
    THEN store[CHOOSE i \in 1 .. Len(store) : store[i].id = messageId]
    ELSE Null

MessageExists(store, messageId) == \E i \in 1 .. Len(store) : store[i].id = messageId

\* db.message.create, as far as storage.messages goes
CreateMessage(store, chatId, senderId, ciphertext, iv, contentType, t) ==
  Append(store, [id |-> MessageId(Len(store) + 1), chatId |-> chatId,
                 senderId |-> senderId, ciphertext |-> ciphertext, iv |-> iv,
                 contentType |-> contentType, createdAt |-> t])

\* db.message.create and db.chat.update, as far as storage.chats goes: the
\* chat's updatedAt becomes new Date()
TouchChat(store, chatId, t) ==
  IF chatId \in DOMAIN store THEN [store EXCEPT ![chatId] = t] ELSE store

\* db.message.update({where: {id}, data: {ciphertext: "", iv: "", contentType: "deleted"}})
ClearMessage(store, messageId) ==
  [i \in 1 .. Len(store) |->
     IF store[i].id = messageId
       THEN [store[i] EXCEPT !.ciphertext = "", !.iv = "", !.contentType = "deleted"]
       ELSE store[i]]

\* db.deleteEvent.create; ui records (history) that the chat room issued it
CreateDeleteEvent(store, messageId, chatId, senderId, signature, timestamp, ui) ==
  Append(store, [id |-> Len(store) + 1, messageId |-> messageId, chatId |-> chatId,
                 senderId |-> senderId, signature |-> signature,
                 timestamp |-> timestamp, delivered |-> FALSE, ui |-> ui])

\* db.deleteEvent.findMany({where: {chatId, delivered: false}})
UndeliveredDeletes(store, chatId) ==
  SelectSeq(store, LAMBDA e : e.chatId = chatId /\ e.delivered = FALSE)

\* db.deleteEvent.updateMany({where: {id: {in}}, data: {delivered: true}})
MarkDelivered(store, ids) ==
  [i \in 1 .. Len(store) |->
     IF store[i].id \in ids THEN [store[i] EXCEPT !.delivered = TRUE] ELSE store[i]]

(***************************************************************************)
(* Responses of /api/messages and /api/delete (history)                    *)
(***************************************************************************)
NoDeleteResponse ==
  [flip |-> 0, op |-> "none", user |-> Null, chat |-> Null, messageId |-> Null,
   signature |-> Null, timestamp |-> 0, status |-> 0, error |-> Null]

DeleteResponse(op, user, chat, messageId, signature, timestamp, status, error) ==
  [flip |-> 1 - dlast.flip, op |-> op, user |-> user, chat |-> chat,
   messageId |-> messageId, signature |-> signature, timestamp |-> timestamp,
   status |-> status, error |-> error]

(***************************************************************************)
(* Message encryption (hooks/use-crypto) and the chat room's requests      *)
(***************************************************************************)
\* storage.chats after initDemoData: updatedAt of chat-1 is the start-up
\* time, that of chat-2 an hour earlier
InitialChats == [c \in Chats |-> IF c = "c1" THEN StartMs ELSE StartMs - 3600000]

\* the AES-GCM key each user's device generates (generateEncryptionKey)
EncryptionKeys == {"ek1", "ek2", "ek3"}

EncryptionKeyOf(userId) ==
  CASE userId = "u1" -> "ek1" [] userId = "u2" -> "ek2" [] OTHER -> "ek3"

\* what a user types, and inputValue.trim()
InputValues == {"hello", "bye ", " "}

Trim(inputValue) ==
  CASE inputValue = "bye " -> "bye" [] inputValue = " " -> "" [] OTHER -> inputValue

Plaintexts == {Trim(v) : v \in InputValues} \ {""}

\* the random 12-byte nonces crypto.getRandomValues can give
Nonces == {"iv1", "iv2"}

\* what a call leaves where it throws, or an async call rejects
Thrown == "throws"

\* two of the engines a client runs on, and the most arguments a call can
\* be given on each: a fixed limit in JavaScriptCore, and in V8 what the
\* stack holds (about this many)
Engines == {"JavaScriptCore", "V8"}

MaxArguments(e) == IF e = "JavaScriptCore" THEN 65536 ELSE 125000

\* texts to encrypt besides what the chat room's users type: the empty one,
\* two CJK characters, "A".repeat(102400) and "A".repeat(1048576)
TestPlaintexts == {"", "hello", "U+4F60 U+597D", "A x 102400", "A x 1048576"}

AllPlaintexts == Plaintexts \cup TestPlaintexts

\* new TextEncoder().encode(text): the UTF-8 bytes, and how many they are
TextEncode(text) == "utf8(" \o text \o ")"

Utf8Length(text) ==
  CASE text = "" -> 0
    [] text = "bye" -> 3
    [] text = "U+4F60 U+597D" -> 6
    [] text = "A x 102400" -> 102400
    [] text = "A x 1048576" -> 1048576
    [] OTHER -> 5

\* new TextDecoder().decode(bytes)
TextDecode(bytes) ==
  IF \E p \in AllPlaintexts : TextEncode(p) = bytes
    THEN CHOOSE p \in AllPlaintexts : TextEncode(p) = bytes
    ELSE "U+FFFD"

\* mutant: every call gets the same nonce
getRandomValuesFixed(n) == "iv1"

\* crypto.getRandomValues(new Uint8Array(12)), the n-th draw: 96 random
\* bits, taken to differ from every earlier draw
getRandomValues(n) == "iv" \o ToString(n)

\* crypto.subtle.encrypt({name: "AES-GCM", iv}, key, data): the ciphertext
\* and its 16-byte tag, determined by key, nonce and data and by nothing less
AesGcmEncrypt(key, iv, bytes) == "aes(" \o key \o "," \o iv \o "," \o bytes \o ")"

AllKeys == EncryptionKeys \cup {"ek" \o ToString(n) : n \in 1 .. MaxKeySets}

AllNonces == Nonces \cup {getRandomValues(n) : n \in 1 .. MaxEncryptions}

\* what encryption gives for each key, nonce and text, and from each such
\* value the three it was made from
Sealings ==
  {[key |-> k, iv |-> n, plaintext |-> p,
    bytes |-> AesGcmEncrypt(k, n, TextEncode(p))] :
     k \in AllKeys, n \in AllNonces, p \in AllPlaintexts}

CipherBytes == {x.bytes : x \in Sealings}

Unsealed == [b \in CipherBytes |-> CHOOSE x \in Sealings : x.bytes = b]

\* mutant: the tag is not checked against the key
AesGcmDecryptAnyKey(key, iv, bytes) ==
  IF bytes \in CipherBytes /\ Unsealed[bytes].iv = iv
    THEN TextEncode(Unsealed[bytes].plaintext)
    ELSE Thrown

\* crypto.subtle.decrypt: the data, if the bytes are what encryption under
\* this key and nonce gives for some data; it rejects (OperationError) for
\* any other bytes
AesGcmDecrypt(key, iv, bytes) ==
  IF bytes \in CipherBytes /\ Unsealed[bytes].key = key /\ Unsealed[bytes].iv = iv
    THEN TextEncode(Unsealed[bytes].plaintext)
    ELSE Thrown

\* bytes with one byte replaced by another
AlterByte(bytes) == bytes \o "^"

\* btoa of the binary string of some bytes
btoa(bytes) == "b64(" \o bytes \o ")"

\* a base64 text with one character changed: one that carries bits of a
\* byte; the last one, in the bits that belong to no byte (there are such
\* bits when the length is no multiple of three); one changed to a character
\* outside the alphabet
ByteAltered(text) == text \o "#byte"

SlackAltered(text) == text \o "#slack"

Malformed(text) == text \o "#!"

\* the base64 texts that decode, each with the bytes it decodes to: what
\* btoa gives, the same with other bits in the last character that belong to
\* no byte, and the same with a character changed that carries bits of a byte
Base64Texts ==
  LET known == CipherBytes \cup AllNonces
  IN {[text |-> btoa(x), bytes |-> x] : x \in known}
       \cup {[text |-> SlackAltered(btoa(x)), bytes |-> x] : x \in known}
       \cup {[text |-> ByteAltered(btoa(x)), bytes |-> AlterByte(x)] : x \in known}

Base64Decoded ==
  [t \in {x.text : x \in Base64Texts} |-> (CHOOSE x \in Base64Texts : x.text = t).bytes]

\* atob (forgiving-base64 decode): the bytes of a base64 text, whatever the
\* bits of its last character that belong to no byte; it throws
\* (InvalidCharacterError) on other text
atob(text) == IF text \in DOMAIN Base64Decoded THEN Base64Decoded[text] ELSE Thrown

\* lib/crypto.ts arrayBufferToBase64 and base64ToArrayBuffer: a loop over
\* the bytes
arrayBufferToBase64(bytes) == btoa(bytes)

base64ToArrayBuffer(base64) == atob(base64)

\* btoa(String.fromCharCode(...bytes)) of hooks/use-crypto: every byte is an
\* argument of one call, which throws (RangeError) beyond the engine's limit
btoaSpread(bytes, length) ==
  IF length > MaxArguments(engine) THEN Thrown ELSE btoa(bytes)

\* mutant: the plaintext is passed on as it is
encryptMessagePlain(plaintext, key, iv) ==
  [threw |-> FALSE, ciphertext |-> plaintext, iv |-> btoa(iv)]

\* encryptMessage of hooks/use-crypto under the nonce it drew: base64 of
\* AES-GCM(key, iv, plaintext) and of the nonce
encryptMessage(plaintext, key, iv) ==
  LET encrypted == AesGcmEncrypt(key, iv, TextEncode(plaintext))
      ciphertext == btoaSpread(encrypted, Utf8Length(plaintext) + 16)
  IN IF ciphertext = Thrown
       THEN [threw |-> TRUE, ciphertext |-> Null, iv |-> Null]
       ELSE [threw |-> FALSE, ciphertext |-> ciphertext, iv |-> btoaSpread(iv, 12)]

\* decryptMessage of hooks/use-crypto: the plaintext, or Thrown where atob
\* throws or crypto.subtle.decrypt rejects
decryptMessage(ciphertext, iv, key) ==
  LET encryptedData == atob(ciphertext)
      ivData == atob(iv)
      decrypted == AesGcmDecrypt(key, ivData, encryptedData)
  IN IF encryptedData = Thrown \/ ivData = Thrown \/ decrypted = Thrown
       THEN Thrown
       ELSE TextDecode(decrypted)

\* encryptMessage and decryptMessage of lib/crypto.ts
encryptMessageLib(message, key, iv) ==
  [threw |-> FALSE,
   ciphertext |-> arrayBufferToBase64(AesGcmEncrypt(key, iv, TextEncode(message))),
   iv |-> arrayBufferToBase64(iv)]

decryptMessageLib(ciphertext, iv, key) ==
  LET encryptedData == base64ToArrayBuffer(ciphertext)
      ivBuffer == base64ToArrayBuffer(iv)
      decrypted == AesGcmDecrypt(key, ivBuffer, encryptedData)
  IN IF encryptedData = Thrown \/ ivBuffer = Thrown \/ decrypted = Thrown
       THEN Thrown
       ELSE TextDecode(decrypted)

\* the url and JSON body fields of a request (absent fields are Null), with
\* the user who sent it and, for a send, the text that was typed (history)
NoRequest ==
  [url |-> Null, user |-> Null, chatId |-> Null, messageId |-> Null,
   ciphertext |-> Null, iv |-> Null, contentType |-> Null, signature |-> Null,
   timestamp |-> Null, typed |-> Null]

(***************************************************************************)
(* PUT /api/auth/session: a user publishes a signing public key            *)
(***************************************************************************)
PublishKey(userId, key) ==
  /\ publicKey' = [publicKey EXCEPT ![userId] = key]
  /\ creq' = NoRequest
  /\ UNCHANGED <<now, notDelete, messages, deleteEvents, data, deletedMessageIds,
                 applied, received, dlast, chats, pager>>

(***************************************************************************)
(* POST /api/messages                                                      *)
(***************************************************************************)
\* mutant: no membership check
SendStatusNoMemberCheck(userId, chatId, ciphertext, iv) ==
  IF userId = Null THEN [status |-> 401, error |-> "Unauthorized"]
  ELSE IF chatId = Null \/ ciphertext = "" \/ iv = ""
    THEN [status |-> 400, error |-> "Chat ID, ciphertext, and IV are required"]
  ELSE [status |-> 200, error |-> Null]

SendStatus(userId, chatId, ciphertext, iv) ==
  IF userId = Null THEN [status |-> 401, error |-> "Unauthorized"]
  ELSE IF chatId = Null \/ ciphertext = "" \/ iv = ""
    THEN [status |-> 400, error |-> "Chat ID, ciphertext, and IV are required"]
  ELSE IF ~IsMember(chatId, userId) THEN [status |-> 403, error |-> "Access denied"]
  ELSE [status |-> 200, error |-> Null]

\* the handler's effect on the store and its response
SendHandler(userId, chatId, ciphertext, iv, contentType) ==
  LET chk == SendStatus(userId, chatId, ciphertext, iv)
  IN /\ IF chk.status # 200
          THEN UNCHANGED <<messages, chats>>
          ELSE /\ Len(messages) < MaxMessages
               /\ messages' = CreateMessage(messages, chatId, userId, ciphertext, iv,
                                            contentType, now)
               /\ chats' = TouchChat(chats, chatId, now)
     /\ dlast' = DeleteResponse("send", userId, chatId, Null, Null, 0,
                                chk.status, chk.error)

\* a request from any client, with any body
SendMessage(userId, chatId, ciphertext, iv, contentType) ==
  /\ SendHandler(userId, chatId, ciphertext, iv, contentType)
  /\ creq' = NoRequest
  /\ UNCHANGED <<now, notDelete, deleteEvents, publicKey, data, deletedMessageIds,
                 applied, received, pager>>

\* handleSend of the chat room: encrypt the trimmed input and post
\* {chatId, ciphertext, iv, contentType: "text"}; if encryptMessage throws,
\* the catch logs it and nothing is sent
HandleSend(userId, chatId, inputValue, iv) ==
  LET enc == encryptMessage(Trim(inputValue), EncryptionKeyOf(userId), iv)
  IN /\ Trim(inputValue) # ""
     /\ IF enc.threw
          THEN /\ creq' = NoRequest
               /\ UNCHANGED <<messages, chats, dlast>>
          ELSE /\ SendHandler(userId, chatId, enc.ciphertext, enc.iv, "text")
               /\ creq' = [NoRequest EXCEPT !.url = "/api/messages", !.user = userId,
                                            !.chatId = chatId,
                                            !.ciphertext = enc.ciphertext,
                                            !.iv = enc.iv, !.contentType = "text",
                                            !.typed = inputValue]
     /\ UNCHANGED <<now, notDelete, deleteEvents, publicKey, data, deletedMessageIds,
                    applied, received, pager>>

(***************************************************************************)
(* POST /api/delete                                                        *)
(***************************************************************************)
\* mutant: the comparison of the message's sender with the session user is
\* missing
DeleteStatusAnyMember(userId, messageId, chatId, signature) ==
  IF userId = Null THEN [status |-> 401, error |-> "Unauthorized"]
  ELSE IF messageId = Null \/ chatId = Null \/ signature = ""
    THEN [status |-> 400, error |-> "Message ID, chat ID, and signature are required"]
  ELSE IF ~IsMember(chatId, userId) THEN [status |-> 403, error |-> "Access denied"]
  ELSE IF ~MessageExists(messages, messageId)
    THEN [status |-> 404, error |-> "Message not found"]
  ELSE [status |-> 200, error |-> Null]

DeleteStatus(userId, messageId, chatId, signature) ==
  IF userId = Null THEN [status |-> 401, error |-> "Unauthorized"]
  ELSE IF messageId = Null \/ chatId = Null \/ signature = ""
    THEN [status |-> 400, error |-> "Message ID, chat ID, and signature are required"]
  ELSE IF ~IsMember(chatId, userId) THEN [status |-> 403, error |-> "Access denied"]
  ELSE IF ~MessageExists(messages, messageId)
    THEN [status |-> 404, error |-> "Message not found"]
  ELSE IF FindMessage(messages, messageId).senderId # userId
    THEN [status |-> 403, error |-> "Can only delete your own messages"]
  ELSE [status |-> 200, error |-> Null]

\* the handler's effect on the store and its response; timestamp 0 stands for
\* a request without one (timestamp || Date.now())
DeleteHandler(userId, messageId, chatId, signature, timestamp, ui) ==
  LET chk == DeleteStatus(userId, messageId, chatId, signature)
  IN /\ IF chk.status # 200
          THEN UNCHANGED <<messages, deleteEvents>>
          ELSE /\ Len(deleteEvents) < MaxDeletes
               /\ deleteEvents' =
                    CreateDeleteEvent(deleteEvents, messageId, chatId, userId, signature,
                                      IF timestamp # 0 THEN timestamp ELSE now, ui)
               /\ messages' = ClearMessage(messages, messageId)
     /\ dlast' = DeleteResponse("delete", userId, chatId, messageId, signature,
                                timestamp, chk.status, chk.error)

\* a request from any client, with any signature
DeleteMessage(userId, messageId, chatId, signature, timestamp) ==
  /\ DeleteHandler(userId, messageId, chatId, signature, timestamp, FALSE)
  /\ creq' = NoRequest
  /\ UNCHANGED <<now, notDelete, publicKey, data, deletedMessageIds, applied, received,
                 chats, pager>>

(***************************************************************************)
(* components/chat-room.tsx                                                *)
(***************************************************************************)
\* handleDelete, offered for the user's own messages that are not shown as
\* deleted: sign {messageId, senderId}, post the request with a timestamp of
\* its own, and on an ok response mark the message deleted locally
HandleDelete(userId, chatId, messageId) ==
  LET signature == signData(ChatRoomDeleteJson(messageId, userId), SigningKeyOf(userId))
      chk == DeleteStatus(userId, messageId, chatId, signature)
  IN /\ MessageExists(messages, messageId)
     /\ FindMessage(messages, messageId).senderId = userId
     /\ FindMessage(messages, messageId).chatId = chatId
     /\ FindMessage(messages, messageId).contentType # "deleted"
     /\ messageId \notin deletedMessageIds[userId]
     /\ DeleteHandler(userId, messageId, chatId, signature, now, TRUE)
     /\ creq' = [NoRequest EXCEPT !.url = "/api/delete", !.user = userId,
                                  !.chatId = chatId, !.messageId = messageId,
                                  !.signature = signature,
                                  !.timestamp = JsonNumber(now)]
     /\ deletedMessageIds' =
          IF chk.status = 200
            THEN [deletedMessageIds EXCEPT ![userId] = @ \cup {messageId}]
            ELSE deletedMessageIds
     /\ UNCHANGED <<now, notDelete, publicKey, data, applied, received, chats, pager>>

\* GET /api/messages as far as delete events go: the undelivered events of
\* the chat are returned as stored (dates as ISO strings, no sender key) and
\* marked delivered; the client keeps them as data.deleteEvents
ReceivedDeleteEvents(events) ==
  [i \in 1 .. Len(events) |->
     [messageId |-> events[i].messageId, chatId |-> events[i].chatId,
      senderId |-> events[i].senderId, signature |-> events[i].signature,
      timestamp |-> JsonDate(events[i].timestamp), senderPublicKey |-> Null]]

PollStatus(userId, chatId) ==
  IF userId = Null THEN 401
  ELSE IF chatId = Null THEN 400
  ELSE IF ~IsMember(chatId, userId) THEN 403 ELSE 200

\* the handler's effect on the store, its response and what the client keeps
PollHandler(userId, chatId) ==
  LET events == UndeliveredDeletes(deleteEvents, chatId)
      status == PollStatus(userId, chatId)
  IN /\ IF status # 200
          THEN UNCHANGED <<deleteEvents, data, received>>
          ELSE /\ deleteEvents' = IF Len(events) > 0
                                    THEN MarkDelivered(deleteEvents, Ids(events))
                                    ELSE deleteEvents
               /\ data' = [data EXCEPT ![userId] = ReceivedDeleteEvents(events)]
               /\ received' = [received EXCEPT ![userId] = @ \cup Ids(events)]
     /\ dlast' = DeleteResponse("poll", userId, chatId, Null, Null, 0, status, Null)

\* the chat room's poll (useSWR, every two seconds): no cursor, no limit
PollMessages(userId, chatId) ==
  /\ PollHandler(userId, chatId)
  /\ creq' = [NoRequest EXCEPT !.url = "/api/messages?chatId=", !.user = userId,
                               !.chatId = chatId]
  /\ UNCHANGED <<now, notDelete, messages, publicKey, deletedMessageIds, applied, chats,
                 pager>>

(***************************************************************************)
(* GET /api/messages as far as messages go: db.message.findMany and the    *)
(* page the response carries; a client that pages with nextCursor          *)
(***************************************************************************)
\* Array.prototype.sort((a, b) => b.createdAt - a.createdAt): a stable sort,
\* newest first
RECURSIVE InsertNewestFirst(_, _)
InsertNewestFirst(s, e) ==
  IF s = <<>> THEN <<e>>
  ELSE IF s[Len(s)].createdAt >= e.createdAt THEN Append(s, e)
  ELSE Append(InsertNewestFirst(SubSeq(s, 1, Len(s) - 1), e), s[Len(s)])

RECURSIVE SortNewestFirst(_)
SortNewestFirst(s) ==
  IF s = <<>> THEN <<>>
  ELSE InsertNewestFirst(SortNewestFirst(SubSeq(s, 1, Len(s) - 1)), s[Len(s)])

\* Array.prototype.findIndex by id, counted from 1; 0 where it gives -1
FindIndex(s, id) ==
  IF \E i \in 1 .. Len(s) : s[i].id = id
    THEN CHOOSE i \in 1 .. Len(s) : s[i].id = id /\ \A j \in 1 .. i - 1 : s[j].id # id
    ELSE 0

\* Array.prototype.slice(0, n), n negative counting from the end
SliceTo(s, n) ==
  IF n >= Len(s) THEN s
  ELSE IF n >= 0 THEN SubSeq(s, 1, n)
  ELSE IF Len(s) + n > 0 THEN SubSeq(s, 1, Len(s) + n)
  ELSE <<>>

\* Array.prototype.reverse
Reverse(s) == [i \in 1 .. Len(s) |-> s[Len(s) + 1 - i]]

\* db.message.findMany({where: {chatId}, orderBy: {createdAt: "desc"}, take,
\* cursor: {id}, skip: 1}); cursor Null stands for a call without cursor and
\* skip
FindManyMessages(store, chatId, take, cursor) ==
  LET sorted == SortNewestFirst(SelectSeq(store, LAMBDA m : m.chatId = chatId))
      cursorIndex == FindIndex(sorted, cursor)
      rest == IF cursor # Null /\ cursorIndex # 0
                THEN SubSeq(sorted, cursorIndex + 1, Len(sorted))
                ELSE sorted
  IN IF take # 0 THEN SliceTo(rest, take) ELSE rest

\* the messages and nextCursor of the response: messages.reverse() reverses
\* the array in place before nextCursor reads its last element
MessagesResponse(store, chatId, cursor, limit) ==
  LET found == FindManyMessages(store, chatId, limit, cursor)
      reversed == Reverse(found)
  IN [messages |-> reversed,
      nextCursor |-> IF Len(found) = limit /\ Len(reversed) > 0
                       THEN reversed[Len(reversed)].id
                       ELSE Null]

\* ids: the ids of the messages of the pages received so far, in order;
\* owed (history): the ids the chat held when the paging began
NoPager ==
  [user |-> Null, chatId |-> Null, limit |-> 0, cursor |-> Null, ids |-> <<>>,
   owed |-> {}, pages |-> 0, done |-> TRUE]

\* a member begins to page through a chat with a fixed limit
StartPaging(userId, chatId, limit) ==
  /\ pager.done
  /\ IsMember(chatId, userId)
  /\ pager' = [user |-> userId, chatId |-> chatId, limit |-> limit, cursor |-> Null,
               ids |-> <<>>,
               owed |-> {messages[i].id : i \in {j \in 1 .. Len(messages) :
                                                   messages[j].chatId = chatId}},
               pages |-> 0, done |-> FALSE]
  /\ UNCHANGED <<now, notDelete, deleteVars, chats>>

\* the next request of the paging: GET /api/messages with the limit and
\* with the cursor the last response gave; the paging ends with a response
\* without nextCursor
FetchPage ==
  LET res == MessagesResponse(messages, pager.chatId, pager.cursor, pager.limit)
  IN /\ ~pager.done
     /\ PollHandler(pager.user, pager.chatId)
     /\ pager' = [pager EXCEPT !.ids = @ \o [i \in 1 .. Len(res.messages) |->
                                               res.messages[i].id],
                               !.cursor = res.nextCursor,
                               !.pages = @ + 1,
                               !.done = (res.nextCursor = Null)]
     /\ creq' = NoRequest
     /\ UNCHANGED <<now, notDelete, messages, publicKey, deletedMessageIds, applied,
                    chats>>

(***************************************************************************)
(* components/chat-room.tsx: processDeletes                                *)
(***************************************************************************)
\* one turn of the loop of processDeletes: acc = [deleted, marks]
ProcessOneDelete(acc, event) ==
  IF event.messageId \in acc.deleted THEN acc
  ELSE IF event.senderPublicKey # Null /\ event.senderPublicKey # ""
    THEN IF /\ CanImportPublicKey(event.senderPublicKey)
            /\ verifySignature(ChatRoomDeleteJson(event.messageId, event.senderId),
                               event.signature, event.senderPublicKey)
           THEN [deleted |-> acc.deleted \cup {event.messageId},
                 marks |-> acc.marks \cup {[messageId |-> event.messageId,
                                            verified |-> TRUE]}]
           ELSE acc
    ELSE [deleted |-> acc.deleted \cup {event.messageId},
          marks |-> acc.marks \cup {[messageId |-> event.messageId,
                                     verified |-> FALSE]}]

RECURSIVE ProcessDeleteLoop(_, _)
ProcessDeleteLoop(acc, events) ==
  IF events = <<>> THEN acc
  ELSE ProcessDeleteLoop(ProcessOneDelete(acc, Head(events)), Tail(events))

\* the effect that runs processDeletes over data.deleteEvents
ProcessDeletes(userId) ==
  LET res == ProcessDeleteLoop([deleted |-> deletedMessageIds[userId], marks |-> {}],
                               data[userId])
  IN /\ Len(data[userId]) > 0
     /\ deletedMessageIds' = [deletedMessageIds EXCEPT ![userId] = res.deleted]
     /\ applied' = [applied EXCEPT ![userId] = @ \cup res.marks]
     /\ creq' = NoRequest
     /\ UNCHANGED <<now, notDelete, messages, deleteEvents, publicKey, data, received,
                    dlast, chats, pager>>

(***************************************************************************)
(* createDeleteEvent and verifyDeleteEvent applied to chosen inputs: a     *)
(* record is created, then fields, signature or the presented key are      *)
(* altered, then it is verified                                            *)
(***************************************************************************)
NoEvent ==
  [messageId |-> Null, chatId |-> Null, senderId |-> Null, signature |-> Null,
   timestamp |-> Null]

SignOff ==
  [phase |-> "off", messageId |-> Null, chatId |-> Null, senderId |-> Null,
   sk |-> Null, orig |-> NoEvent, ev |-> NoEvent, pk |-> Null, verdict |-> "none"]

\* the inputs of createDeleteEvent
SignInputs ==
  {[SignOff EXCEPT !.phase = "input", !.messageId = m, !.chatId = c, !.senderId = r,
                   !.sk = k] :
     m \in {"m1", "m2"}, c \in {"c1", "c2"}, r \in {"u1", "u2"}, k \in {"sk1", "sk2"}}

\* createDeleteEvent(messageId, chatId, senderId, signingPrivateKey)
SignCreate ==
  /\ sv.phase = "input"
  /\ sv' = [sv EXCEPT !.phase = "created",
                      !.orig = createDeleteEvent(sv.messageId, sv.chatId, sv.senderId,
                                                 sv.sk, now),
                      !.ev = createDeleteEvent(sv.messageId, sv.chatId, sv.senderId,
                                               sv.sk, now),
                      !.pk = PublicKeyOf(sv.sk)]
  /\ UNCHANGED <<now, notSign>>

\* one field of the record is replaced
AlterField(field, value) ==
  /\ sv.phase = "created"
  /\ sv.verdict = "none"
  /\ sv' = [sv EXCEPT !.ev = [sv.ev EXCEPT ![field] = value]]
  /\ UNCHANGED <<now, notSign>>

\* signatures that are not the record's own: bytes that are no signature,
\* another key's signature over the same data, the same key's signature over
\* another record
OtherSignatures ==
  {"garbage", "not base64!",
   signData(DeleteEventJson(sv.orig.messageId, sv.orig.chatId, sv.orig.senderId,
                            sv.orig.timestamp),
            IF sv.sk = "sk1" THEN "sk2" ELSE "sk1"),
   signData(DeleteEventJson("m0", sv.orig.chatId, sv.orig.senderId, sv.orig.timestamp),
            sv.sk)}

AlterSignature(signature) ==
  /\ sv.phase = "created"
  /\ sv.verdict = "none"
  /\ sv' = [sv EXCEPT !.ev = [sv.ev EXCEPT !.signature = signature]]
  /\ UNCHANGED <<now, notSign>>

\* another public key, or a string that is no key, is presented
PresentKey(key) ==
  /\ sv.phase = "created"
  /\ sv.verdict = "none"
  /\ sv' = [sv EXCEPT !.pk = key]
  /\ UNCHANGED <<now, notSign>>

\* verifyDeleteEvent(deleteEvent, senderPublicKeyBase64)
SignVerify ==
  /\ sv.phase = "created"
  /\ sv.verdict = "none"
  /\ sv' = [sv EXCEPT !.verdict = IF verifyDeleteEventOutcome(sv.ev, sv.pk).threw
                                    THEN "throws"
                                  ELSE IF verifyDeleteEvent(sv.ev, sv.pk)
                                    THEN "true" ELSE "false"]
  /\ UNCHANGED <<now, notSign>>

(***************************************************************************)
(* lib/delete-message.ts: processDeleteEvents over a local message store   *)
(***************************************************************************)
\* mutant: the record is applied whether or not the local store has the
\* message
ProcessOneEventNoHas(acc, event) ==
  IF event.senderPublicKey = Null \/ event.senderPublicKey = "" THEN acc
  ELSE IF ~verifyDeleteEvent([messageId |-> event.messageId, chatId |-> event.chatId,
                              senderId |-> event.senderId,
                              signature |-> event.signature,
                              timestamp |-> event.timestamp],
                             event.senderPublicKey)
    THEN acc
  ELSE [store |-> acc.store \ {event.messageId},
        deletedIds |-> Append(acc.deletedIds, event.messageId),
        calls |-> Append(acc.calls, event.messageId)]

\* one turn of the loop: acc = [store, deletedIds, calls]
ProcessOneEvent(acc, event) ==
  IF event.senderPublicKey = Null \/ event.senderPublicKey = "" THEN acc
  ELSE IF ~verifyDeleteEvent([messageId |-> event.messageId, chatId |-> event.chatId,
                              senderId |-> event.senderId,
                              signature |-> event.signature,
                              timestamp |-> event.timestamp],
                             event.senderPublicKey)
    THEN acc
  ELSE IF event.messageId \in acc.store
    THEN [store |-> acc.store \ {event.messageId},
          deletedIds |-> Append(acc.deletedIds, event.messageId),
          calls |-> Append(acc.calls, event.messageId)]
  ELSE acc

RECURSIVE ProcessEventLoop(_, _)
ProcessEventLoop(acc, events) ==
  IF events = <<>> THEN acc
  ELSE ProcessEventLoop(ProcessOneEvent(acc, Head(events)), Tail(events))

\* processDeleteEvents(deleteEvents, localMessageStore, onDelete): the store
\* it leaves, the ids it returns and the calls of onDelete it makes
processDeleteEvents(events, store) ==
  ProcessEventLoop([store |-> store, deletedIds |-> <<>>, calls |-> <<>>], events)

NoProcess == [flip |-> 0, events |-> <<>>, deletedIds |-> <<>>]

LocalMessages == {"m1", "m2"}

\* a record of a delete with the key it arrives with (DeleteEventWithKey)
WithKey(event, key) ==
  [messageId |-> event.messageId, chatId |-> event.chatId, senderId |-> event.senderId,
   signature |-> event.signature, timestamp |-> event.timestamp,
   senderPublicKey |-> key]

\* valid records for two messages, and records that are skipped: a bad
\* signature, no key, another user's key
EventInputs ==
  LET e1 == createDeleteEvent("m1", "c1", "u1", "sk1", StartMs)
      e2 == createDeleteEvent("m2", "c1", "u1", "sk1", StartMs)
  IN {WithKey(e1, "pk1"), WithKey(e2, "pk1"),
      WithKey([e1 EXCEPT !.signature = "garbage"], "pk1"),
      WithKey(e1, Null), WithKey(e1, "pk2")}

BatchInputs ==
  {<<e>> : e \in EventInputs} \cup {<<e, f>> : e \in EventInputs, f \in EventInputs}

ApplyDeleteEvents(events) ==
  LET res == processDeleteEvents(events, localMessageStore)
  IN /\ localMessageStore' = res.store
     /\ onDeleteCalls' = onDeleteCalls \o res.calls
     /\ pd' = [flip |-> 1 - pd.flip, events |-> events, deletedIds |-> res.deletedIds]
     /\ UNCHANGED <<now, notLib>>

(***************************************************************************)
(* components/video-call.tsx: the call screen of two members of chat c1.   *)
(* Mounting it runs startCall; handleIncomingCall is defined there but     *)
(* nothing calls it.                                                       *)
(***************************************************************************)
Endpoints == {"u1", "u2"}

CallChat == "c1"

\* targetUserId: the other member of the chat
TargetOf(userId) == IF userId = "u1" THEN "u2" ELSE "u1"

\* ui: the component is not yet mounted, mounted, unmounted;
\* step: where startCall is: awaiting getUserMedia ("media"), awaiting
\* createOffer and setLocalDescription ("offer"), awaiting the post of the
\* offer ("send"), past setInterval ("polling"), or in its catch ("failed");
\* pc: peerConnectionRef; interval: a timer set by setInterval is live
NoCall ==
  [ui |-> "none", step |-> "none", pc |-> "none", localDescription |-> Null,
   remoteDescription |-> Null, candidates |-> 0, interval |-> FALSE]

NoPoll == [flip |-> 0, user |-> Null, outcome |-> Null, signals |-> <<>>]

OfferOf(userId) == "offer-" \o userId

\* the cleanup of the effect and endCall: clearInterval, pc.close(), and the
\* screen is gone (onClose)
Closed(c) ==
  [c EXCEPT !.interval = FALSE,
            !.pc = IF c.pc = "open" THEN "closed" ELSE c.pc,
            !.ui = IF c.ui = "open" THEN "closed" ELSE c.ui]

\* the chat room shows the call screen; the effect calls startCall, which
\* asks for camera and microphone
OpenCall(u) ==
  /\ call[u].ui = "none"
  /\ call' = [call EXCEPT ![u] = [@ EXCEPT !.ui = "open", !.step = "media"]]
  /\ UNCHANGED <<now, relayVars, notCall, clast>>

\* getUserMedia resolves: the peer connection is created; or it rejects and
\* the catch calls onClose
MediaDone(u, granted) ==
  /\ call[u].step = "media"
  /\ call' = [call EXCEPT ![u] =
               IF granted THEN [@ EXCEPT !.step = "offer", !.pc = "open"]
               ELSE Closed([@ EXCEPT !.step = "failed"])]
  /\ UNCHANGED <<now, relayVars, notCall, clast>>

\* createOffer and setLocalDescription; both throw on a closed connection
OfferCreated(u) ==
  /\ call[u].step = "offer"
  /\ call' = [call EXCEPT ![u] =
               IF @.pc = "open"
                 THEN [@ EXCEPT !.step = "send", !.localDescription = OfferOf(u)]
                 ELSE Closed([@ EXCEPT !.step = "failed"])]
  /\ UNCHANGED <<now, relayVars, notCall, clast>>

\* sendSignal("offer", ...) resolves whatever the status of the response,
\* and setInterval starts the polling; or fetch rejects and the catch calls
\* onClose
OfferPosted(u, sent) ==
  /\ call[u].step = "send"
  /\ IF sent
       THEN /\ PostHandler(u, CallChat, TargetOf(u), "offer", OfferOf(u))
            /\ call' = [call EXCEPT ![u] = [@ EXCEPT !.step = "polling",
                                                      !.interval = TRUE]]
       ELSE /\ call' = [call EXCEPT ![u] = Closed([@ EXCEPT !.step = "failed"])]
            /\ UNCHANGED <<signalEvents, nextId, last>>
  /\ UNCHANGED <<now, inflight, delivered, notCall, clast>>

\* pc.onicecandidate: a candidate is posted to the target
IceCandidate(u) ==
  /\ call[u].pc = "open"
  /\ call[u].localDescription # Null
  /\ PostHandler(u, CallChat, TargetOf(u), "ice-candidate", "candidate-" \o u)
  /\ UNCHANGED <<now, inflight, delivered, notCall, callVars>>

\* one turn of the loop of the interval callback of startCall; a call on the
\* connection that rejects (closed connection, answer in a wrong signaling
\* state, candidate before a remote description) ends the callback
ApplySignal(acc, signal) ==
  IF acc.threw THEN acc
  ELSE IF signal.type = "answer"
    THEN IF acc.c.pc = "open" /\ acc.c.remoteDescription = Null
           THEN [acc EXCEPT !.c.remoteDescription = signal.payload]
           ELSE [acc EXCEPT !.threw = TRUE]
  ELSE IF signal.type = "ice-candidate"
    THEN IF acc.c.pc = "open" /\ acc.c.remoteDescription # Null
           THEN [acc EXCEPT !.c.candidates = @ + 1]
           ELSE [acc EXCEPT !.threw = TRUE]
  ELSE acc

RECURSIVE ApplySignals(_, _)
ApplySignals(acc, signals) ==
  IF signals = <<>> THEN acc
  ELSE ApplySignals(ApplySignal(acc, Head(signals)), Tail(signals))

\* the outcomes of fetch: an ok response, a response that is not ok, a
\* network error after the server has served the request
FetchOutcomes == {"ok", "not-ok", "lost"}

\* pollSignals: the signals of an ok response, none otherwise
pollSignals(outcome, signals) == IF outcome = "ok" THEN signals ELSE <<>>

\* mutant: a poll that failed ends the call
OnPollClosing(c, outcome, signals) ==
  IF outcome # "ok" THEN Closed(c)
  ELSE ApplySignals([c |-> c, threw |-> FALSE], pollSignals(outcome, signals)).c

\* the interval callback: poll, then apply what came
OnPoll(c, outcome, signals) ==
  ApplySignals([c |-> c, threw |-> FALSE], pollSignals(outcome, signals)).c

\* a tick of the interval; the server runs the GET unless it answers with
\* an error
PollTick(u, outcome) ==
  LET found == FindSignals(signalEvents, CallChat, u, now)
      served == outcome \in {"ok", "lost"}
      signals == IF served THEN SignalBody(found) ELSE <<>>
  IN /\ call[u].interval
     /\ IF served
          THEN FetchHandler(u, CallChat)
          ELSE UNCHANGED <<signalEvents, delivered, last>>
     /\ call' = [call EXCEPT ![u] = OnPoll(@, outcome, signals)]
     /\ clast' = [flip |-> 1 - clast.flip, user |-> u, outcome |-> outcome,
                  signals |-> pollSignals(outcome, signals)]
     /\ UNCHANGED <<now, nextId, inflight, notCall>>

\* the end-call button, or the unmounting of the screen
EndCall(u) ==
  /\ call[u].ui = "open"
  /\ call' = [call EXCEPT ![u] = Closed(@)]
  /\ UNCHANGED <<now, relayVars, notCall, clast>>

(***************************************************************************)
(* hooks/use-crypto.ts: the key set of the device, kept in IndexedDB and   *)
(* in the state of each useCrypto instance (the chat room's and the        *)
(* security settings'), and handleReset of components/security-settings    *)
(***************************************************************************)
Hooks == {"chat", "settings"}

\* the n-th key set crypto.subtle.generateKey makes: random keys, unlike any
\* made before; written as the record saveKeys puts
KeySet(n) ==
  [id |-> "primary", encryptionKey |-> "ek" \o ToString(n),
   signingKeyPair |-> [publicKey |-> "pk" \o ToString(n),
                       privateKey |-> "sk" \o ToString(n)],
   exportedPublicKey |-> "pk" \o ToString(n)]

\* no key pair, and no record under "primary"
NoPair == [publicKey |-> Null, privateKey |-> Null]

NoKeySet ==
  [id |-> Null, encryptionKey |-> Null, signingKeyPair |-> NoPair,
   exportedPublicKey |-> Null]

NoPrev == [stored |-> NoKeySet, encryptionKey |-> Null, known |-> {}]

\* pc: where the instance's call is: awaiting loadKeys ("load"), awaiting
\* saveKeys with the set just generated ("save"), awaiting store.clear()
\* ("clear"); resetting: the call in flight is handleReset's; prev
\* (history): what was there when handleReset began
NoHook ==
  [mounted |-> FALSE, isReady |-> FALSE, encryptionKey |-> Null,
   signingKeyPair |-> NoPair, publicKeyExport |-> Null, pc |-> "idle",
   pending |-> NoKeySet, resetting |-> FALSE, prev |-> NoPrev]

NoKeyCall ==
  [flip |-> 0, op |-> "none", hook |-> Null, outcome |-> Null, result |-> Null,
   prev |-> NoPrev]

\* setEncryptionKey, setSigningKeyPair, setPublicKeyExport, setIsReady(true)
WithKeys(h, set) ==
  [h EXCEPT !.encryptionKey = set.encryptionKey,
            !.signingKeyPair = set.signingKeyPair,
            !.publicKeyExport = set.exportedPublicKey, !.isReady = TRUE]

\* the catch of initializeKeys
InitializeFailed(h) ==
  [h EXCEPT !.isReady = FALSE, !.pc = "idle", !.pending = NoKeySet, !.resetting = FALSE]

\* mutant: the stored set is ignored and a new one is generated
OnLoadedRegenerate(h, stored, n) ==
  [h EXCEPT !.pending = KeySet(n + 1), !.pc = "save"]

\* initializeKeys from the result of loadKeys to its return or to the await
\* of saveKeys; n key sets have been generated so far
OnLoaded(h, stored, n) ==
  IF stored # NoKeySet
    THEN [WithKeys(h, stored) EXCEPT !.pc = "idle", !.resetting = FALSE]
    ELSE [h EXCEPT !.pending = KeySet(n + 1), !.pc = "save"]

\* what a call that ended leaves in klast
KeyCall(h, outcome, result) ==
  [flip |-> 1 - klast.flip, op |-> IF h.resetting THEN "handleReset" ELSE "initializeKeys",
   hook |-> Null, outcome |-> outcome, result |-> result, prev |-> h.prev]

\* the component is rendered (a page is opened or reloaded): fresh state,
\* and the effect calls initializeKeys
Mount(i) ==
  /\ hook[i].pc = "idle"
  /\ hook' = [hook EXCEPT ![i] = [NoHook EXCEPT !.mounted = TRUE, !.pc = "load"]]
  /\ UNCHANGED <<now, notKey, idb, keysGenerated, klast>>

\* loadKeys settles: store.get("primary") gives the record or nothing, or
\* the database cannot be opened or read
LoadKeys(i, ok) ==
  LET h == hook[i]
      h1 == IF ok THEN OnLoaded(h, idb, keysGenerated) ELSE InitializeFailed(h)
  IN /\ h.pc = "load"
     /\ h1.pc = "save" => keysGenerated < MaxKeySets
     /\ hook' = [hook EXCEPT ![i] = h1]
     /\ keysGenerated' = IF h1.pc = "save" THEN keysGenerated + 1 ELSE keysGenerated
     /\ klast' = IF h1.pc = "save" THEN klast
                 ELSE [KeyCall(h, IF ok THEN "loaded" ELSE "load-failed",
                               IF ok THEN idb.exportedPublicKey ELSE Null)
                         EXCEPT !.hook = i]
     /\ UNCHANGED <<now, notKey, idb>>

\* saveKeys settles: store.put succeeded and the state is set, or it failed
\* and the catch runs
SaveKeys(i, ok) ==
  LET h == hook[i]
  IN /\ h.pc = "save"
     /\ idb' = IF ok THEN h.pending ELSE idb
     /\ hook' = [hook EXCEPT ![i] =
                  IF ok THEN [WithKeys(h, h.pending) EXCEPT !.pc = "idle",
                                                            !.pending = NoKeySet,
                                                            !.resetting = FALSE]
                  ELSE InitializeFailed(h)]
     /\ klast' = [KeyCall(h, IF ok THEN "generated" ELSE "save-failed",
                          IF ok THEN h.pending.exportedPublicKey ELSE Null)
                    EXCEPT !.hook = i]
     /\ UNCHANGED <<now, notKey, keysGenerated>>

\* the key sets that are stored or that some instance has in its state
HeldSets ==
  {KeySet(n) : n \in {m \in 1 .. keysGenerated :
                        \/ idb = KeySet(m)
                        \/ \E i \in Hooks :
                             hook[i].encryptionKey = KeySet(m).encryptionKey}}

\* handleReset of the security settings: await clearKeys()
HandleReset ==
  LET h == hook["settings"]
  IN /\ h.mounted
     /\ h.pc = "idle"
     /\ hook' = [hook EXCEPT !["settings"] =
                  [h EXCEPT !.pc = "clear", !.resetting = TRUE,
                            !.prev = [stored |-> idb,
                                      encryptionKey |-> h.encryptionKey,
                                      known |-> HeldSets]]]
     /\ UNCHANGED <<now, notKey, idb, keysGenerated, klast>>

\* mutant: the state is cleared and the store is left as it is
OnClearedKeepStore(h, stored) ==
  [h |-> [h EXCEPT !.encryptionKey = Null, !.signingKeyPair = NoPair,
                   !.publicKeyExport = Null, !.isReady = FALSE, !.pc = "load"],
   stored |-> stored]

\* clearKeys once store.clear() has succeeded, and handleReset going on to
\* initializeKeys
OnCleared(h, stored) ==
  [h |-> [h EXCEPT !.encryptionKey = Null, !.signingKeyPair = NoPair,
                   !.publicKeyExport = Null, !.isReady = FALSE, !.pc = "load"],
   stored |-> NoKeySet]

\* store.clear() settles; if it fails clearKeys rejects, and so does
\* handleReset, with nothing changed
ClearKeys(ok) ==
  LET h == hook["settings"]
      res == OnCleared(h, idb)
  IN /\ h.pc = "clear"
     /\ hook' = [hook EXCEPT !["settings"] =
                  IF ok THEN res.h ELSE [h EXCEPT !.pc = "idle", !.resetting = FALSE]]
     /\ idb' = IF ok THEN res.stored ELSE idb
     /\ klast' = IF ok THEN klast
                 ELSE [KeyCall(h, "clear-failed", Null) EXCEPT !.hook = "settings"]
     /\ UNCHANGED <<now, notKey, keysGenerated>>

\* exportKey of hooks/use-crypto: base64 of the raw key
exportKey(key) == btoa("raw(" \o key \o ")")

\* the symmetric key of another device, as that device exports it
OtherDeviceKey == "ek-other"

\* what is pasted into the import field: nothing, the exported key of
\* another device, the device's own first key, and text that is no key
ImportValues == {"", exportKey(OtherDeviceKey), exportKey("ek1"), "not a key!"}

\* importKey of hooks/use-crypto: atob and crypto.subtle.importKey("raw"),
\* which resolve with the key the text encodes or throw; nothing is set and
\* nothing is stored
importKey(base64Key) ==
  IF \E k \in AllKeys \cup {OtherDeviceKey} : exportKey(k) = base64Key
    THEN [threw |-> FALSE,
          value |-> CHOOSE k \in AllKeys \cup {OtherDeviceKey} : exportKey(k) = base64Key]
    ELSE [threw |-> TRUE, value |-> Null]

\* handleImport once importKey has settled: the key it resolved with is
\* dropped, the field is emptied and the alert is shown; the hook's state
\* and the store are what they were
OnImported(h, stored, outcome) ==
  [h |-> h, stored |-> stored,
   alert |-> IF outcome.threw THEN "Failed to import key. Please check the format."
             ELSE "Key imported successfully!"]

\* handleImport of the security settings with the text of the import field
HandleImport(importValue) ==
  LET h == hook["settings"]
      outcome == importKey(importValue)
      res == OnImported(h, idb, outcome)
  IN /\ h.mounted
     /\ importValue # ""
     /\ hook' = [hook EXCEPT !["settings"] = res.h]
     /\ idb' = res.stored
     /\ klast' = [flip |-> 1 - klast.flip, op |-> "handleImport", hook |-> "settings",
                  outcome |-> res.alert, result |-> outcome.value, prev |-> NoPrev]
     /\ UNCHANGED <<now, notKey, keysGenerated>>

(***************************************************************************)
(* encryptMessage and decryptMessage of hooks/use-crypto and of lib/crypto *)
(* applied to chosen texts and keys; what is given to decryptMessage is    *)
(* what encryptMessage returned, as it is or altered                       *)
(***************************************************************************)
Implementations == {"hook", "lib"}

NoSealed == <<>>

NoOpened ==
  [of |-> 0, key |-> Null, alter |-> Null, ciphertext |-> Null, result |-> Null]

\* the ways the ciphertext text is altered before it is decrypted
Alterations == {"none", "byte", "slack", "malformed"}

Altered(alter, text) ==
  CASE alter = "byte" -> ByteAltered(text)
    [] alter = "slack" -> SlackAltered(text)
    [] alter = "malformed" -> Malformed(text)
    [] OTHER -> text

\* the last base64 character of the ciphertext of a text has bits that
\* belong to no byte
HasSlack(plaintext) == (Utf8Length(plaintext) + 16) % 3 # 0

\* a call of encryptMessage(plaintext, key): the nonce is drawn inside
Encrypt(impl, plaintext, key) ==
  LET iv == getRandomValues(drawn + 1)
      res == IF impl = "hook" THEN encryptMessage(plaintext, key, iv)
             ELSE encryptMessageLib(plaintext, key, iv)
  IN /\ Len(sealed) < MaxEncryptions
     /\ drawn' = drawn + 1
     /\ sealed' = Append(sealed, [impl |-> impl, plaintext |-> plaintext, key |-> key,
                                  threw |-> res.threw, ciphertext |-> res.ciphertext,
                                  iv |-> res.iv])
     /\ opened' = NoOpened
     /\ UNCHANGED <<now, notCrypto, engine>>

\* a call of decryptMessage on what the latest encryption returned
Decrypt(key, alter) ==
  LET j == Len(sealed)
      e == sealed[j]
      text == Altered(alter, e.ciphertext)
  IN /\ j > 0
     /\ ~e.threw
     /\ alter = "slack" => HasSlack(e.plaintext)
     /\ opened' = [of |-> j, key |-> key, alter |-> alter, ciphertext |-> text,
                   result |-> IF e.impl = "hook" THEN decryptMessage(text, e.iv, key)
                              ELSE decryptMessageLib(text, e.iv, key)]
     /\ UNCHANGED <<now, notCrypto, engine, sealed, drawn>>

(***************************************************************************)
(* components/video-call.tsx: handleIncomingCall, run by u2 for a call     *)
(* from u1. The callback of its interval awaits the poll, every call on    *)
(* the peer connection and the post of the answer; the interval fires      *)
(* again whether or not the callback before it has ended.                  *)
(***************************************************************************)
CalleeUser == "u2"

\* the callbacks of the interval that can be in flight at once
Ticks == {1, 2}

\* pc: where the callback is: not running ("idle"), at the head of its loop
\* over the signals polled ("loop"), awaiting a call on the peer connection
\* ("await"), awaiting the post of the answer ("send"); i: the index of
\* the signal the loop is at
NoTick == [pc |-> "idle", signals |-> <<>>, i |-> 0, answer |-> Null]

\* step: handleIncomingCall has not run ("none"), has set the interval
\* ("polling"), or ended in its catch ("failed"); chain: the operations
\* queued on the RTCPeerConnection, which run one at a time in the order of
\* the calls; applied (history): the offers set as remote description;
\* over (history): an offer was set over a remote description;
\* answers (history): the answers posted
NoCallee ==
  [step |-> "none", signalingState |-> "stable", remoteDescription |-> Null,
   localDescription |-> Null, candidates |-> 0, chain |-> <<>>,
   tick |-> [t \in Ticks |-> NoTick], applied |-> <<>>, over |-> FALSE,
   answers |-> 0]

NoAnswer == [flip |-> 0, tick |-> 0, payload |-> Null]

\* handleIncomingCall up to setInterval: getUserMedia resolves and the peer
\* connection is made, or it rejects and the catch logs it
IncomingCall(granted) ==
  /\ callee.step = "none"
  /\ callee' = [callee EXCEPT !.step = IF granted THEN "polling" ELSE "failed"]
  /\ UNCHANGED <<now, relayVars, notCallee, alast>>

\* the interval fires and the callback's pollSignals is served: the loop
\* has the signals of an ok response, none otherwise
CalleePoll(t, outcome) ==
  LET found == FindSignals(signalEvents, CallChat, CalleeUser, now)
      served == outcome \in {"ok", "lost"}
      signals == IF served THEN SignalBody(found) ELSE <<>>
  IN /\ callee.step = "polling"
     /\ callee.tick[t].pc = "idle"
     /\ IF served
          THEN FetchHandler(CalleeUser, CallChat)
          ELSE UNCHANGED <<signalEvents, delivered, last>>
     /\ callee' = [callee EXCEPT !.tick[t] =
                    [NoTick EXCEPT !.pc = "loop",
                                   !.signals = pollSignals(outcome, signals), !.i = 1]]
     /\ UNCHANGED <<now, nextId, inflight, notCallee, alast>>

\* the branch of the loop's body a signal takes
Branch(signal, remoteDescription) ==
  IF signal.type = "offer" /\ remoteDescription = Null THEN "setRemoteDescription"
  ELSE IF signal.type = "ice-candidate" THEN "addIceCandidate"
  ELSE "skip"

\* the index of the first signal from i on whose branch makes a call, or one
\* past the end
RECURSIVE NextCall(_, _, _)
NextCall(signals, i, remoteDescription) ==
  IF i > Len(signals) THEN i
  ELSE IF Branch(signals[i], remoteDescription) # "skip" THEN i
  ELSE NextCall(signals, i + 1, remoteDescription)

\* the loop runs on from signal i to its next call on the peer connection,
\* which it awaits, or to its end; remoteDescription is read when the
\* signal's turn comes
CalleeLoop(t) ==
  LET k == callee.tick[t]
      j == NextCall(k.signals, k.i, callee.remoteDescription)
  IN /\ k.pc = "loop"
     /\ callee' =
          IF j > Len(k.signals) THEN [callee EXCEPT !.tick[t] = NoTick]
          ELSE [callee EXCEPT
                  !.tick[t] = [k EXCEPT !.pc = "await", !.i = j],
                  !.chain = Append(@, [tick |-> t,
                                       op |-> Branch(k.signals[j],
                                                     callee.remoteDescription),
                                       arg |-> k.signals[j].payload])]
     /\ UNCHANGED <<now, relayVars, notCallee, alast>>

\* createAnswer answers the offer that is the remote description
AnswerTo(offer) == "answer-to-" \o offer

\* the operation at the head of the chain settles, and the callback that
\* awaited it goes on to its next call or to the head of its loop; a
\* rejection (createAnswer or an answer as local description outside
\* have-remote-offer, a candidate without remote description) ends the
\* callback
Settle(c) ==
  LET o == Head(c.chain)
      t == o.tick
      k == c.tick[t]
      rest == Tail(c.chain)
  IN CASE o.op = "setRemoteDescription" ->
            [c EXCEPT !.remoteDescription = o.arg,
                      !.signalingState = "have-remote-offer",
                      !.applied = Append(@, o.arg),
                      !.over = @ \/ c.remoteDescription # Null,
                      !.chain = Append(rest, [tick |-> t, op |-> "createAnswer",
                                              arg |-> Null])]
       [] o.op = "createAnswer" ->
            IF c.signalingState = "have-remote-offer"
              THEN [c EXCEPT !.chain =
                      Append(rest, [tick |-> t, op |-> "setLocalDescription",
                                    arg |-> AnswerTo(c.remoteDescription)])]
              ELSE [c EXCEPT !.chain = rest, !.tick[t] = NoTick]
       [] o.op = "setLocalDescription" ->
            IF c.signalingState = "have-remote-offer"
              THEN [c EXCEPT !.chain = rest, !.signalingState = "stable",
                             !.localDescription = o.arg,
                             !.tick[t] = [k EXCEPT !.pc = "send", !.answer = o.arg]]
              ELSE [c EXCEPT !.chain = rest, !.tick[t] = NoTick]
       [] OTHER ->
            IF c.remoteDescription # Null
              THEN [c EXCEPT !.chain = rest, !.candidates = @ + 1,
                             !.tick[t] = [k EXCEPT !.pc = "loop", !.i = @ + 1]]
              ELSE [c EXCEPT !.chain = rest, !.tick[t] = NoTick]

ChainStep ==
  /\ callee.chain # <<>>
  /\ callee' = Settle(callee)
  /\ UNCHANGED <<now, relayVars, notCallee, alast>>

\* sendSignal("answer", ...) resolves whatever the status of the response
\* and the loop goes on; or fetch rejects, which ends the callback
CalleeSend(t, sent) ==
  LET k == callee.tick[t]
  IN /\ k.pc = "send"
     /\ IF sent
          THEN /\ PostHandler(CalleeUser, CallChat, TargetOf(CalleeUser), "answer",
                              k.answer)
               /\ callee' = [callee EXCEPT !.answers = @ + 1,
                                           !.tick[t] = [k EXCEPT !.pc = "loop",
                                                                 !.i = @ + 1,
                                                                 !.answer = Null]]
               /\ alast' = [flip |-> 1 - alast.flip, tick |-> t, payload |-> k.answer]
          ELSE /\ callee' = [callee EXCEPT !.tick[t] = NoTick]
               /\ UNCHANGED <<signalEvents, nextId, last, alast>>
     /\ UNCHANGED <<now, inflight, delivered, notCallee>>

(***************************************************************************)
(* components/chat-room.tsx: the effect that decrypts the messages of the  *)
(* latest /api/messages response with the hook's decryptMessage            *)
(***************************************************************************)
\* what the chat room shows for a message whose decryption failed
UnableToDecrypt == "[Unable to decrypt]"

\* the messages a response can carry: encrypted on this device, encrypted
\* under the key of another device, with a ciphertext changed in a byte or
\* no longer base64, and deleted
MessageKinds == {"own", "foreign", "altered", "malformed", "deleted"}

RoomText == "hello"

FetchedMessage(n, kind) ==
  LET own == encryptMessage(RoomText, KeySet(1).encryptionKey, "iv1")
      foreign == encryptMessage(RoomText, KeySet(2).encryptionKey, "iv1")
  IN [id |-> MessageId(n),
      ciphertext |-> CASE kind = "own" -> own.ciphertext
                       [] kind = "foreign" -> foreign.ciphertext
                       [] kind = "altered" -> ByteAltered(own.ciphertext)
                       [] kind = "malformed" -> Malformed(own.ciphertext)
                       [] OTHER -> "",
      iv |-> IF kind = "deleted" THEN "" ELSE own.iv,
      contentType |-> IF kind = "deleted" THEN "deleted" ELSE "text"]

\* new Map(), and map.set(key, value)
EmptyMap == [x \in {} |-> Null]

MapSet(map, key, value) ==
  [x \in DOMAIN map \cup {key} |-> IF x = key THEN value ELSE map[x]]

\* flip, batch (history): a run of decryptAll has ended, and the ids it
\* set; rejected (history): an exception left the latest run
NoRoom ==
  [messages |-> <<>>, decryptedMessages |-> EmptyMap, flip |-> 0, batch |-> {},
   rejected |-> FALSE]

\* mutant: the loop body without its try and catch
DecryptOneNoCatch(newDecrypted, msg, key) ==
  LET plaintext == decryptMessage(msg.ciphertext, msg.iv, key)
  IN IF plaintext = Thrown
       THEN [threw |-> TRUE, value |-> newDecrypted]
       ELSE [threw |-> FALSE, value |-> MapSet(newDecrypted, msg.id, plaintext)]

\* the try and catch of decryptAll's loop body: the plaintext is set, or
\* the catch sets "[Unable to decrypt]"
DecryptOne(newDecrypted, msg, key) ==
  LET plaintext == decryptMessage(msg.ciphertext, msg.iv, key)
  IN [threw |-> FALSE,
      value |-> MapSet(newDecrypted, msg.id,
                       IF plaintext = Thrown THEN UnableToDecrypt ELSE plaintext)]

\* the condition of the loop body: no entry yet, ciphertext and iv are not
\* empty, and the message is not deleted
ToDecrypt(newDecrypted, msg) ==
  /\ msg.id \notin DOMAIN newDecrypted
  /\ msg.ciphertext # ""
  /\ msg.iv # ""
  /\ msg.contentType # "deleted"

\* for (const msg of messages) from the i-th message on; an exception that
\* leaves the body ends the loop
RECURSIVE decryptLoop(_, _, _, _)
decryptLoop(newDecrypted, msgs, i, key) ==
  IF i > Len(msgs) THEN [threw |-> FALSE, value |-> newDecrypted]
  ELSE IF ToDecrypt(newDecrypted, msgs[i])
    THEN LET step == DecryptOne(newDecrypted, msgs[i], key)
         IN IF step.threw THEN step
            ELSE decryptLoop(step.value, msgs, i + 1, key)
  ELSE decryptLoop(newDecrypted, msgs, i + 1, key)

\* decryptAll: how it ends, and the map it gives to setDecryptedMessages if
\* it gets there
decryptAll(decryptedMessages, msgs, key) ==
  LET res == decryptLoop(decryptedMessages, msgs, 1, key)
  IN IF res.threw THEN [threw |-> TRUE, value |-> decryptedMessages] ELSE res

\* a poll of /api/messages brings one more message
RoomReceive(kind) ==
  /\ Len(room.messages) < MaxFetched
  /\ room' = [room EXCEPT !.messages =
                Append(@, FetchedMessage(Len(room.messages) + 1, kind))]
  /\ UNCHANGED <<now, notRoom, keyVars>>

\* the effect on [messages, decryptMessage, decryptedMessages]: it returns
\* at once without decryptMessage (the hook has no key yet) or without
\* messages, and calls decryptAll otherwise
RoomDecrypt ==
  LET key == hook["chat"].encryptionKey
      res == decryptAll(room.decryptedMessages, room.messages, key)
  IN /\ key # Null
     /\ room.messages # <<>>
     /\ \E i \in 1 .. Len(room.messages) :
          ToDecrypt(room.decryptedMessages, room.messages[i])
     /\ room' = [room EXCEPT !.decryptedMessages = res.value,
                             !.flip = 1 - @,
                             !.batch = DOMAIN res.value \ DOMAIN room.decryptedMessages,
                             !.rejected = res.threw]
     /\ UNCHANGED <<now, notRoom, keyVars>>

(***************************************************************************)
(* lib/auth.ts and the routes of /api/auth: magic links, password login    *)
(* and registration, sessions, and the cookie getSession reads             *)
(***************************************************************************)
\* 15 * 60 * 1000
MAGIC_LINK_TTL_MS == 900000

\* the life of a session, 30 * 24 * 60 * 60 * 1000 ms, in seconds: the
\* times of sessions are kept in whole seconds, which every time here is
SESSION_TTL_S == 2592000

JWT_SECRET == "your-secret-key-min-32-characters!!"

\* the clock of this part moves in steps of half the life of a link
LinkTickMs == MAGIC_LINK_TTL_MS \div 2

\* hashPassword: the hex SHA-256 of the password
hashPassword(password) == "sha256(" \o password \o ")"

\* the hash the demo users are stored with; it is the hash of none of the
\* passwords tried here ("demo123" hashes to d3ad9315...)
DEMO_PASSWORD_HASH == "b149338f9fce5559c4f3a99a8f5a719dd0561bca3e2d79f7bdd3ace0bfb84c68"

\* storage.users after initDemoData
DemoUsers ==
  {[id |-> "u1", email |-> "demo@example.com", passwordHash |-> DEMO_PASSWORD_HASH],
   [id |-> "u2", email |-> "alice@example.com", passwordHash |-> DEMO_PASSWORD_HASH],
   [id |-> "u3", email |-> "bob@example.com", passwordHash |-> DEMO_PASSWORD_HASH]}

\* what the forms are filled with
Emails == {"demo@example.com", "carol@example.com", "not-an-email"}

Passwords == {"secret1", "demo123", "short"}

\* /^[^\s@]+@[^\s@]+\.[^\s@]+$/.test(email)
EmailValid(email) == email \in {"demo@example.com", "carol@example.com"}

PasswordLength(password) == IF password = "short" THEN 5 ELSE 7

\* generateSecureToken, the n-th draw: the hex text of 32 random bytes,
\* unlike every earlier one
generateSecureToken(n) == "hex" \o ToString(n)

\* a token nobody was given
BogusToken == "hex0"

\* no JWT: what the cookie auth_token is when it is absent; also the null
\* verifyJWT returns
NoJWT == [userId |-> Null, sessionId |-> Null, email |-> Null, exp |-> 0, secret |-> Null]

\* createJWT at time t: the payload, the exp claim in seconds (30 days on),
\* and the secret of its HS256 signature
createJWT(payload, t) ==
  [userId |-> payload.userId, sessionId |-> payload.sessionId, email |-> payload.email,
   exp |-> (t \div 1000) + SESSION_TTL_S, secret |-> JWT_SECRET]

\* verifyJWT at time t: the payload of a JWT signed with JWT_SECRET that has
\* not expired; otherwise jwtVerify throws and null is returned
verifyJWT(token, t) ==
  IF token.secret = JWT_SECRET /\ token.exp > t \div 1000 THEN token ELSE NoJWT

NoSession == [id |-> Null, userId |-> Null, token |-> Null, expiresAt |-> 0]

NoLink == [id |-> Null, userId |-> Null, token |-> Null, expiresAt |-> 0, used |-> FALSE]

\* the cookies of a browser: auth_token holds a JWT, session_token a hex
\* token
NoJar == [auth_token |-> NoJWT, session_token |-> Null]

VerifyRequests == {"r1", "r2"}

\* users: the users created since the start; sessions, magicLinks: the maps
\* of storage; tokens: the number of draws of generateSecureToken; req: the
\* requests of GET /api/auth/verify made so far; jar: the cookies of the
\* browser that sends r1 and the password requests; login (history): the
\* latest successful login or registration, its session and the
\* session_token its response set; got (history): the latest call of
\* getSession and the session it returned
NoAuth ==
  [users |-> {}, sessions |-> <<>>, magicLinks |-> <<>>, tokens |-> 0, req |-> <<>>,
   jar |-> NoJar,
   login |-> [flip |-> 0, op |-> Null, userId |-> Null, session |-> Null, token |-> Null],
   got |-> [flip |-> 0, session |-> Null, userId |-> Null]]

\* storage.users
StoredUsers(a) == DemoUsers \cup a.users

\* db.user.findUnique({where: {email}}): the user's record, or none
UsersByEmail(users, email) == {u \in users : u.email = email}

\* createSession at time t with the n-th token: the record db.session.create
\* stores, its expiresAt in seconds
createSession(sessions, userId, n, t) ==
  [id |-> "s" \o ToString(Len(sessions) + 1), userId |-> userId,
   token |-> generateSecureToken(n), expiresAt |-> (t \div 1000) + SESSION_TTL_S]

\* db.session.findUnique({where: {id}})
FindSession(sessions, id) ==
  IF \E i \in 1 .. Len(sessions) : sessions[i].id = id
    THEN sessions[CHOOSE i \in 1 .. Len(sessions) : sessions[i].id = id]
    ELSE NoSession

\* getSession at time t: the cookie auth_token is verified as a JWT and the
\* session of its sessionId is looked up; NoSession stands for null
getSession(cookieStore, sessions, t) ==
  LET token == cookieStore.auth_token
      payload == verifyJWT(token, t)
      session == FindSession(sessions, payload.sessionId)
  IN IF token = NoJWT THEN NoSession
     ELSE IF payload = NoJWT THEN NoSession
     ELSE IF session = NoSession \/ session.expiresAt < t \div 1000 THEN NoSession
     ELSE session

\* db.magicLink.findUnique({where: {token}, include: {user: true}}): a copy
\* of the record, or none
FindMagicLink(magicLinks, token) ==
  IF \E i \in 1 .. Len(magicLinks) : magicLinks[i].token = token
    THEN magicLinks[CHOOSE i \in 1 .. Len(magicLinks) : magicLinks[i].token = token]
    ELSE NoLink

\* db.magicLink.update({where: {id}, data: {used: true}})
MarkUsed(magicLinks, id) ==
  [i \in 1 .. Len(magicLinks) |->
     IF magicLinks[i].id = id THEN [magicLinks[i] EXCEPT !.used = TRUE]
     ELSE magicLinks[i]]

\* POST /api/auth/magic-link with a well-formed email (400 otherwise):
\* generateMagicLink finds or creates the user and stores a link that
\* expires in 15 minutes
GenerateMagicLink(email) ==
  LET known == UsersByEmail(StoredUsers(auth), email)
      user == IF known # {} THEN CHOOSE u \in known : TRUE
              ELSE [id |-> "u" \o ToString(Cardinality(StoredUsers(auth)) + 1),
                    email |-> email, passwordHash |-> Null]
      link == [id |-> "l" \o ToString(Len(auth.magicLinks) + 1), userId |-> user.id,
               token |-> generateSecureToken(auth.tokens + 1),
               expiresAt |-> now + MAGIC_LINK_TTL_MS, used |-> FALSE]
  IN /\ Len(auth.magicLinks) < MaxLinks
     /\ EmailValid(email)
     /\ auth' = [auth EXCEPT !.users = IF known # {} THEN @ ELSE @ \cup {user},
                             !.magicLinks = Append(@, link),
                             !.tokens = @ + 1]
     /\ UNCHANGED <<now, notAuth>>

\* a request of GET /api/auth/verify; pc: where its handler is: awaiting
\* findUnique ("found"), awaiting the rest after verifyMagicLink returned
\* the user ("verified"), returned ("done"); user, at, session (history):
\* whom verifyMagicLink returned and when, and the session made
VerifyRequest(token) ==
  [pc |-> "done", token |-> token, found |-> NoLink, user |-> Null, at |-> 0,
   session |-> Null, redirect |-> Null]

\* the requests made so far, with one more
WithRequest(req, r, q) == [x \in DOMAIN req \cup {r} |-> IF x = r THEN q ELSE req[x]]

\* GET /api/auth/verify up to the await in verifyMagicLink: findUnique has
\* read the link; without a token the handler redirects at once
VerifyFind(r, token) ==
  /\ r \notin DOMAIN auth.req
  /\ auth' = [auth EXCEPT !.req = WithRequest(@, r,
               IF token = Null
                 THEN [VerifyRequest(token) EXCEPT !.redirect = "/login?error=invalid"]
                 ELSE [VerifyRequest(token) EXCEPT
                         !.pc = "found",
                         !.found = FindMagicLink(auth.magicLinks, token)])]
  /\ UNCHANGED <<now, notAuth>>

\* verifyMagicLink from the result of findUnique, the record it checks:
\* null for no link, a used one or an expired one; otherwise the link is
\* marked used and its user is returned
VerifyCheck(r) ==
  LET q == auth.req[r]
      magicLink == q.found
  IN /\ r \in DOMAIN auth.req
     /\ q.pc = "found"
     /\ auth' = IF magicLink = NoLink \/ magicLink.used \/ magicLink.expiresAt < now
                  THEN [auth EXCEPT !.req[r] =
                          [q EXCEPT !.pc = "done", !.redirect = "/login?error=expired"]]
                  ELSE [auth EXCEPT !.magicLinks = MarkUsed(@, magicLink.id),
                                    !.req[r] = [q EXCEPT !.pc = "verified",
                                                         !.user = magicLink.userId,
                                                         !.at = now]]
     /\ UNCHANGED <<now, notAuth>>

\* the rest of GET /api/auth/verify: createSession, createJWT, and the
\* cookie auth_token on the redirect to /chats
VerifyFinish(r) ==
  LET q == auth.req[r]
      session == createSession(auth.sessions, q.user, auth.tokens + 1, now)
      user == CHOOSE u \in StoredUsers(auth) : u.id = q.user
      jwt == createJWT([userId |-> q.user, sessionId |-> session.id,
                        email |-> user.email], now)
  IN /\ r \in DOMAIN auth.req
     /\ q.pc = "verified"
     /\ Len(auth.sessions) < MaxSessions
     /\ auth' = [auth EXCEPT !.sessions = Append(@, session),
                             !.tokens = @ + 1,
                             !.jar = IF r = "r1" THEN [@ EXCEPT !.auth_token = jwt] ELSE @,
                             !.req[r] = [q EXCEPT !.pc = "done", !.session = session.id,
                                                  !.redirect = "/chats"]]
     /\ UNCHANGED <<now, notAuth>>

\* what a successful login or registration does: createSession, and the
\* cookie session_token with the session's token on the response
SignedIn(a, op, userId, t) ==
  LET session == createSession(a.sessions, userId, a.tokens + 1, t)
  IN [a EXCEPT !.sessions = Append(@, session),
               !.tokens = @ + 1,
               !.jar = [@ EXCEPT !.session_token = session.token],
               !.login = [flip |-> 1 - @.flip, op |-> op, userId |-> userId,
                          session |-> session.id, token |-> session.token]]

\* POST /api/auth/register: 400 for a bad email or password or a registered
\* email; otherwise the user is created and signed in
Register(email, password) ==
  LET user == [id |-> "u" \o ToString(Cardinality(StoredUsers(auth)) + 1),
               email |-> email, passwordHash |-> hashPassword(password)]
      ok == /\ PasswordLength(password) >= 6
            /\ EmailValid(email)
            /\ UsersByEmail(StoredUsers(auth), email) = {}
  IN /\ Len(auth.sessions) < MaxSessions
     /\ ok
     /\ auth' = SignedIn([auth EXCEPT !.users = @ \cup {user}], "register", user.id, now)
     /\ UNCHANGED <<now, notAuth>>

\* POST /api/auth/login: 401 for an unknown email or another password;
\* otherwise the user is signed in
Login(email, password) ==
  LET known == UsersByEmail(StoredUsers(auth), email)
      user == CHOOSE u \in known : TRUE
  IN /\ Len(auth.sessions) < MaxSessions
     /\ known # {}
     /\ user.passwordHash = hashPassword(password)
     /\ auth' = SignedIn(auth, "login", user.id, now)
     /\ UNCHANGED <<now, notAuth>>

\* GET /api/auth/session from the browser, with the cookies it holds
SessionRequest ==
  LET session == getSession(auth.jar, auth.sessions, now)
  IN /\ auth' = [auth EXCEPT !.got = [flip |-> 1 - @.flip, session |-> session.id,
                                      userId |-> session.userId]]
     /\ UNCHANGED <<now, notAuth>>

\* time passes
LinkTick ==
  /\ now + LinkTickMs <= StartMs + MaxTicks * LinkTickMs
  /\ now' = now + LinkTickMs
  /\ UNCHANGED <<relayVars, notRelay>>

(***************************************************************************)
(* Specification of the relay, one request at a time                       *)
(***************************************************************************)
InitStores ==
  /\ now = StartMs
  /\ signalEvents = <<>>
  /\ nextId = 0
  /\ inflight = [p \in Procs |-> Idle]
  /\ delivered = [id \in 1 .. MaxSignals |-> 0]
  /\ last = NoResponse
  /\ messages = <<>>
  /\ deleteEvents = <<>>
  /\ publicKey = [u \in Users |-> Null]
  /\ data = [u \in Users |-> <<>>]
  /\ deletedMessageIds = [u \in Users |-> {}]
  /\ applied = [u \in Users |-> {}]
  /\ received = [u \in Users |-> {}]
  /\ creq = NoRequest
  /\ dlast = NoDeleteResponse
  /\ chats = InitialChats

InitCall ==
  /\ call = [u \in Endpoints |-> NoCall]
  /\ clast = NoPoll

InitLib ==
  /\ localMessageStore = {}
  /\ onDeleteCalls = <<>>
  /\ pd = NoProcess

InitKeys ==
  /\ idb = NoKeySet
  /\ hook = [i \in Hooks |-> NoHook]
  /\ keysGenerated = 0
  /\ klast = NoKeyCall

InitCrypto ==
  /\ engine = "V8"
  /\ sealed = NoSealed
  /\ opened = NoOpened
  /\ drawn = 0

InitPager ==
  /\ pager = NoPager

InitCallee ==
  /\ callee = NoCallee
  /\ alast = NoAnswer

InitRoom ==
  /\ room = NoRoom

InitAuth ==
  /\ auth = NoAuth

\* the clients' crypto, paging and answering parts before anything runs
InitClients ==
  /\ InitKeys
  /\ InitCrypto
  /\ InitPager
  /\ InitCallee
  /\ InitRoom
  /\ InitAuth

Init ==
  /\ InitStores
  /\ sv = SignOff
  /\ InitLib
  /\ InitCall
  /\ InitClients

\* requests of members and of non-members, to members, to non-members and
\* to nobody, in two chats
FetchInputs == {<<"u1", "c1">>, <<"u2", "c1">>, <<"u2", "c2">>, <<"u3", "c1">>}

PostInputs ==
  {<<"u1", "c1", "u2", "offer">>, <<"u2", "c1", "u1", "answer">>,
   <<"u1", "c2", "u2", "offer">>, <<"u1", "c1", Null, "offer">>,
   <<"u3", "c1", "u1", "offer">>, <<"u1", "c1", "u3", "offer">>,
   <<"u1", "c1", "u2", "bogus">>}

Next ==
  \/ Tick
  \/ \E i \in FetchInputs : FetchSignals(i[1], i[2])
  \/ \E i \in PostInputs : PostSignal(i[1], i[2], i[3], i[4], "sdp")

Spec == Init /\ [][Next]_vars

(***************************************************************************)
(* Specification of the mailboxes of u1 and u2 in chat c1: each posts to   *)
(* the other, and each fetches with any userId parameter in the url        *)
(***************************************************************************)
MailboxNext ==
  \/ Tick
  \/ \E u \in {"u1", "u2"} :
       PostSignal(u, "c1", IF u = "u1" THEN "u2" ELSE "u1", "offer", "sdp")
  \/ \E u \in {"u1", "u2"}, q \in Users \cup {Null} : FetchSignalsFor(u, "c1", q)

MailboxSpec == Init /\ [][MailboxNext]_vars

(***************************************************************************)
(* Specification of the relay with overlapping requests                    *)
(***************************************************************************)
\* the fetches of the member that posts are addressed to
ConcFetchInputs == {<<"u2", "c1">>}

ConcPostInputs == {<<"u1", "c1", "u2", "offer">>, <<"u1", "c1", "u3", "offer">>}

ConcNext ==
  \/ Tick
  \/ \E p \in Procs, i \in ConcFetchInputs : GetFind(p, i[1], i[2])
  \/ \E p \in Procs : GetMark(p)
  \/ \E p \in Procs, i \in ConcPostInputs : PostCreate(p, i[1], i[2], i[3], i[4], "sdp")
  \/ \E p \in Procs : PostCleanup(p)

ConcSpec == Init /\ [][ConcNext]_vars

(***************************************************************************)
(* Specification of the delete flow in chat c1: u1 and u2 send, u1 deletes *)
(* from the chat room, u2 is the recipient client                          *)
(***************************************************************************)
\* signatures a request can carry: the library's over the canonical tuple,
\* made with the requester's own key, and one that is no signature at all
SignatureInputs(userId, messageId, chatId) ==
  {signData(DeleteEventJson(messageId, chatId, userId, JsonNumber(now)),
            SigningKeyOf(userId)),
   "garbage"}

DelNext ==
  \/ PublishKey("u1", PublicKeyOf(SigningKeyOf("u1")))
  \/ \E u \in {"u1", "u2"}, contentType \in {"text", "deleted"} :
       SendMessage(u, "c1", "ct", "iv", contentType)
  \/ \E u \in {"u1", "u2"}, n \in 1 .. MaxMessages :
       \E sg \in SignatureInputs(u, MessageId(n), "c1") :
         DeleteMessage(u, MessageId(n), "c1", sg, now)
  \/ \E n \in 1 .. MaxMessages : HandleDelete("u1", "c1", MessageId(n))
  \/ PollMessages("u2", "c1")
  \/ ProcessDeletes("u2")

DelSpec == Init /\ [][DelNext]_vars

(***************************************************************************)
(* Specification of the relay of delete records in chat c2, of which u1,   *)
(* u2 and u3 are members: u1 sends and deletes, every member fetches       *)
(***************************************************************************)
SyncNext ==
  \/ \E v \in InputValues, iv \in Nonces : HandleSend("u1", "c2", v, iv)
  \/ \E n \in 1 .. MaxMessages : HandleDelete("u1", "c2", MessageId(n))
  \/ \E n \in 1 .. MaxMessages, c \in Chats :
       DeleteMessage("u1", MessageId(n), c, "garbage", 0)
  \/ \E u \in Users : PollMessages(u, "c2")

SyncSpec == Init /\ [][SyncNext]_vars

(***************************************************************************)
(* Specification of a call between u1 and u2 in chat c1; an answer can     *)
(* also reach the relay from a client other than the call screen           *)
(***************************************************************************)
CallNext ==
  \/ \E u \in Endpoints : OpenCall(u)
  \/ \E u \in Endpoints, granted \in BOOLEAN : MediaDone(u, granted)
  \/ \E u \in Endpoints : OfferCreated(u)
  \/ \E u \in Endpoints, sent \in BOOLEAN : OfferPosted(u, sent)
  \/ \E u \in Endpoints : IceCandidate(u)
  \/ \E u \in Endpoints, outcome \in FetchOutcomes : PollTick(u, outcome)
  \/ \E u \in Endpoints : EndCall(u)
  \/ PostSignal("u2", CallChat, "u1", "answer", "answer-u2")

CallSpec == Init /\ [][CallNext]_vars

(***************************************************************************)
(* Specification of handleIncomingCall: u1 posts offers and candidates to  *)
(* u2, whose call screen answers, all within the lifetime of a signal      *)
(***************************************************************************)
CalleeNext ==
  \/ \E n \in {1, 2} :
       PostSignal("u1", CallChat, CalleeUser, "offer", "offer-" \o ToString(n))
  \/ PostSignal("u1", CallChat, CalleeUser, "ice-candidate", "candidate-u1")
  \/ \E granted \in BOOLEAN : IncomingCall(granted)
  \/ \E t \in Ticks, outcome \in FetchOutcomes : CalleePoll(t, outcome)
  \/ \E t \in Ticks : CalleeLoop(t)
  \/ ChainStep
  \/ \E t \in Ticks, sent \in BOOLEAN : CalleeSend(t, sent)

CalleeSpec == Init /\ [][CalleeNext]_vars

\* startCall goes on once started, and a live interval keeps firing and
\* keeps getting ok responses
CallFairness ==
  \A u \in Endpoints :
    /\ WF_vars(\E granted \in BOOLEAN : MediaDone(u, granted))
    /\ WF_vars(OfferCreated(u))
    /\ WF_vars(\E sent \in BOOLEAN : OfferPosted(u, sent))
    /\ WF_vars(PollTick(u, "ok"))

CallLiveSpec == CallSpec /\ CallFairness

(***************************************************************************)
(* Specification of the key store: the chat room and the security settings *)
(* are opened and reloaded, the settings reset the keys, and IndexedDB      *)
(* requests can fail                                                       *)
(***************************************************************************)
KeyNext ==
  \/ \E i \in Hooks : Mount(i)
  \/ \E i \in Hooks, ok \in BOOLEAN : LoadKeys(i, ok)
  \/ \E i \in Hooks, ok \in BOOLEAN : SaveKeys(i, ok)
  \/ HandleReset
  \/ \E ok \in BOOLEAN : ClearKeys(ok)
  \/ \E v \in ImportValues : HandleImport(v)

KeySpec == Init /\ [][KeyNext]_vars

(***************************************************************************)
(* Specification of the chat room's decryption: the hook gets its key,     *)
(* messages arrive one by one and the effect decrypts what is new          *)
(***************************************************************************)
RoomNext ==
  \/ Mount("chat")
  \/ \E ok \in BOOLEAN : LoadKeys("chat", ok)
  \/ \E ok \in BOOLEAN : SaveKeys("chat", ok)
  \/ \E kind \in MessageKinds : RoomReceive(kind)
  \/ RoomDecrypt

RoomSpec == Init /\ [][RoomNext]_vars

(***************************************************************************)
(* Specification of signing in: a magic link is made and two requests      *)
(* verify tokens, their handlers in flight together; a browser registers,  *)
(* logs in and asks for its session                                        *)
(***************************************************************************)
AuthNext ==
  \/ LinkTick
  \/ \E email \in Emails : GenerateMagicLink(email)
  \/ \E r \in VerifyRequests,
        token \in {Null, BogusToken} \cup {generateSecureToken(n) : n \in 1 .. MaxLinks} :
       VerifyFind(r, token)
  \/ \E r \in VerifyRequests : VerifyCheck(r)
  \/ \E r \in VerifyRequests : VerifyFinish(r)
  \/ \E email \in Emails, password \in Passwords : Register(email, password)
  \/ \E email \in Emails, password \in Passwords : Login(email, password)
  \/ SessionRequest

AuthSpec == Init /\ [][AuthNext]_vars

(***************************************************************************)
(* Specification of encryption and decryption on chosen inputs, on each    *)
(* engine                                                                  *)
(***************************************************************************)
CryptoInit ==
  /\ InitStores
  /\ sv = SignOff
  /\ InitLib
  /\ InitCall
  /\ InitKeys
  /\ engine \in Engines
  /\ sealed = NoSealed
  /\ opened = NoOpened
  /\ drawn = 0
  /\ InitPager
  /\ InitCallee
  /\ InitRoom
  /\ InitAuth

CryptoNext ==
  \/ \E impl \in Implementations, p \in TestPlaintexts, k \in {"ek1", "ek2"} :
       Encrypt(impl, p, k)
  \/ \E k \in {"ek1", "ek2"}, alter \in Alterations : Decrypt(k, alter)

CryptoSpec == CryptoInit /\ [][CryptoNext]_vars

(***************************************************************************)
(* Specification of sending and paging in chat c1, which holds up to       *)
(* MaxPaged messages at the start: u1 is a member, u3 is not               *)
(***************************************************************************)
\* storage.messages after k sends to c1, the first at start-up and the
\* others one tick later
StoredMessages(k) ==
  [n \in 1 .. k |->
     [id |-> MessageId(n), chatId |-> "c1",
      senderId |-> IF n % 2 = 1 THEN "u1" ELSE "u2", ciphertext |-> "ct",
      iv |-> "iv", contentType |-> "text",
      createdAt |-> IF n = 1 THEN StartMs ELSE StartMs + TickMs]]

PageInit ==
  /\ now = StartMs + TickMs
  /\ signalEvents = <<>>
  /\ nextId = 0
  /\ inflight = [p \in Procs |-> Idle]
  /\ delivered = [id \in 1 .. MaxSignals |-> 0]
  /\ last = NoResponse
  /\ \E k \in 0 .. MaxPaged :
       /\ messages = StoredMessages(k)
       /\ chats = IF k = 0 THEN InitialChats
                  ELSE TouchChat(InitialChats, "c1", StoredMessages(k)[k].createdAt)
  /\ deleteEvents = <<>>
  /\ publicKey = [u \in Users |-> Null]
  /\ data = [u \in Users |-> <<>>]
  /\ deletedMessageIds = [u \in Users |-> {}]
  /\ applied = [u \in Users |-> {}]
  /\ received = [u \in Users |-> {}]
  /\ creq = NoRequest
  /\ dlast = NoDeleteResponse
  /\ sv = SignOff
  /\ InitLib
  /\ InitCall
  /\ InitClients

PageNext ==
  \/ Tick
  \/ \E u \in {"u1", "u3"} : SendMessage(u, "c1", "ct", "iv", "text")
  \/ \E limit \in {1, 2} : StartPaging("u1", "c1", limit)
  \/ FetchPage

PageSpec == PageInit /\ [][PageNext]_vars

(***************************************************************************)
(* Specification of createDeleteEvent / verifyDeleteEvent on chosen inputs *)
(***************************************************************************)
SignInit ==
  /\ InitStores
  /\ sv \in SignInputs
  /\ InitLib
  /\ InitCall
  /\ InitClients

SignNext ==
  \/ Tick
  \/ SignCreate
  \/ \E m \in {"m1", "m2"} : AlterField("messageId", m)
  \/ \E c \in {"c1", "c2"} : AlterField("chatId", c)
  \/ \E r \in {"u1", "u2"} : AlterField("senderId", r)
  \/ \E k \in {0, MaxTicks} : AlterField("timestamp", JsonNumber(StartMs + k * TickMs))
  \/ AlterField("timestamp", JsonDate(now))
  \/ \E sg \in OtherSignatures : AlterSignature(sg)
  \/ \E key \in {"pk1", "pk2", "notakey", "not a key!"} : PresentKey(key)
  \/ SignVerify

SignSpec == SignInit /\ [][SignNext]_vars

(***************************************************************************)
(* Specification of processDeleteEvents on chosen local stores and batches *)
(***************************************************************************)
ProcInit ==
  /\ InitStores
  /\ sv = SignOff
  /\ localMessageStore \in SUBSET LocalMessages
  /\ onDeleteCalls = <<>>
  /\ pd = NoProcess
  /\ InitCall
  /\ InitClients

ProcNext == \E events \in BatchInputs : ApplyDeleteEvents(events)

ProcSpec == ProcInit /\ [][ProcNext]_vars

(***************************************************************************)
(* Properties of the relay                                                 *)
(***************************************************************************)
\* the records of the store that a fetch of (chat, user) at time t has to
\* return, stated from the contract: addressed to the user in that chat, not
\* yet consumed, expiry still ahead
Eligible(chatId, userId, t) ==
  {e \in Range(signalEvents) :
     e.chatId = chatId /\ e.toUserId = userId /\ ~e.consumed /\ e.expiresAt > t}

IsFetch(r) == r.op = "fetch_signals" /\ r.status = 200

\* C1: under any interleaving of concurrent fetches, every stored record is
\* carried by at most one fetch response.
C1_AtMostOneFetch == \A id \in DOMAIN delivered : delivered[id] <= 1

\* C2: in a sequential run a fetch of (c, u) returns exactly the unconsumed,
\* unexpired records addressed to u in c, each once, and a fetch of (c, u)
\* that follows it immediately returns none of them again.
C2_FetchExactlyOnce ==
  [][(last'.flip # last.flip /\ IsFetch(last')) =>
       /\ Ids(last'.recs) = {e.id : e \in Eligible(last'.chat, last'.user, now)}
       /\ Cardinality(Ids(last'.recs)) = Len(last'.recs)
       /\ (IsFetch(last) /\ last.chat = last'.chat /\ last.user = last'.user)
            => Ids(last'.recs) \cap Ids(last.recs) = {}]_vars

\* two records were posted to one mailbox, one fetch returned both, and the
\* fetch right after it has returned nothing although both are still stored
\* and unexpired
C2_Witness ==
  /\ IsFetch(last)
  /\ last.recs = <<>>
  /\ Cardinality({e \in Range(signalEvents) :
                    /\ e.chatId = last.chat /\ e.toUserId = last.user
                    /\ e.consumed /\ e.expiresAt > now /\ delivered[e.id] = 1}) = 2

\* C3: a fetch never returns a record whose expiry has passed at the time of
\* the fetch, consumed or not.
C3_NoExpiredReturned ==
  /\ \A i \in 1 .. Len(last.recs) : last.recs[i].expiresAt > last.at
  /\ \A p \in Procs : \A i \in 1 .. Len(inflight[p].recs) :
        inflight[p].recs[i].expiresAt > inflight[p].at

\* a fetch has answered with nothing while the store holds a record for that
\* mailbox that was never consumed and whose expiry is exactly the fetch time
C3_Witness ==
  /\ IsFetch(last)
  /\ last.recs = <<>>
  /\ \E e \in Range(signalEvents) :
        /\ e.chatId = last.chat /\ e.toUserId = last.user
        /\ ~e.consumed /\ delivered[e.id] = 0 /\ e.expiresAt = last.at

\* C4: the records of one fetch response are in ascending order of creation:
\* of two returned records the one posted earlier comes first.
C4_CreationOrder ==
  \A i, j \in 1 .. Len(last.recs) :
    i < j => /\ last.recs[i].createdAt <= last.recs[j].createdAt
             /\ last.recs[i].id < last.recs[j].id

\* a fetch has returned two records created at different times
C4_Witness ==
  /\ IsFetch(last)
  /\ Len(last.recs) = 2
  /\ last.recs[1].createdAt < last.recs[2].createdAt

\* a well-formed post of an authenticated user
WellFormedPost(r) ==
  /\ r.op = "post_signal"
  /\ r.user # Null /\ r.chat # Null /\ r.type \in validTypes

SenderOutside(r) == ~IsMember(r.chat, r.user)

TargetOutside(r) == r.to # Null /\ ~IsMember(r.chat, r.to)

\* C5 as stated: a post whose sender, or whose to-user when present, is not a
\* member of the chat is rejected with AccessDenied (403) and has no effect.
C5_Original ==
  [][(last'.flip # last.flip /\ WellFormedPost(last')
        /\ (SenderOutside(last') \/ TargetOutside(last'))) =>
       /\ last'.status = 403
       /\ signalEvents' = signalEvents
       /\ nextId' = nextId]_vars

\* C5 amended: a post whose sender is not a member is rejected with
\* AccessDenied (403); a post of a member whose to-user is present and not a
\* member is rejected with 400 "Target user not in chat"; neither has an
\* effect: no record is created, changed or purged.
C5_RejectedNoEffect ==
  [][(last'.flip # last.flip /\ WellFormedPost(last')
        /\ (SenderOutside(last') \/ TargetOutside(last'))) =>
       /\ SenderOutside(last') => (last'.status = 403 /\ last'.error = "Access denied")
       /\ ~SenderOutside(last') =>
            (last'.status = 400 /\ last'.error = "Target user not in chat")
       /\ signalEvents' = signalEvents
       /\ nextId' = nextId]_vars

\* a post to a non-member has been rejected while the store holds an expired
\* record, which an accepted post would have purged
C5_Witness ==
  /\ WellFormedPost(last)
  /\ TargetOutside(last) /\ ~SenderOutside(last)
  /\ last.status = 400
  /\ \E e \in Range(signalEvents) : e.expiresAt < now

(***************************************************************************)
(* Properties of the delete flow                                           *)
(***************************************************************************)
IsNewDelete(r, r0) == r.flip # r0.flip /\ r.op = "delete"

\* the request as a DeleteControlMessage of its requester
RequestEvent(r) ==
  [messageId |-> r.messageId, chatId |-> r.chat, senderId |-> r.user,
   signature |-> r.signature, timestamp |-> JsonNumber(r.timestamp)]

\* C6: a delete request of a chat member who is not the sender of the target
\* message is rejected, creates no DeleteRecord and leaves the message as it
\* is, whatever the signature.
C6_NonSenderRejected ==
  [][(/\ IsNewDelete(dlast', dlast)
      /\ dlast'.user # Null
      /\ IsMember(dlast'.chat, dlast'.user)
      /\ MessageExists(messages, dlast'.messageId)
      /\ FindMessage(messages, dlast'.messageId).senderId # dlast'.user) =>
       /\ dlast'.status # 200
       /\ dlast'.signature # "" => dlast'.status = 403
       /\ deleteEvents' = deleteEvents
       /\ messages' = messages]_vars

\* a member who did not send the message has asked to delete it with a
\* signature that verifies against the member's own key, and was refused; the
\* message still has its ciphertext
C6_Witness ==
  /\ dlast.op = "delete"
  /\ dlast.status = 403
  /\ dlast.error = "Can only delete your own messages"
  /\ verifyDeleteEvent(RequestEvent(dlast), PublicKeyOf(SigningKeyOf(dlast.user)))
  /\ FindMessage(messages, dlast.messageId).ciphertext = "ct"
  /\ FindMessage(messages, dlast.messageId).contentType = "text"

\* the signature of the request verifies against the key the requester has
\* published, over the canonical tuple or over the chat room's pair
RequestVerifies(r) ==
  /\ publicKey[r.user] # Null
  /\ CanImportPublicKey(publicKey[r.user])
  /\ \/ verifyDeleteEvent(RequestEvent(r), publicKey[r.user])
     \/ verifySignature(ChatRoomDeleteJson(r.messageId, r.user), r.signature,
                        publicKey[r.user])

\* C7: a delete request whose signature does not verify against the
\* requester's published signing key is rejected and changes nothing.
C7_BadSignatureRejected ==
  [][(IsNewDelete(dlast', dlast) /\ dlast'.user # Null /\ ~RequestVerifies(dlast')) =>
       /\ dlast'.status # 200
       /\ deleteEvents' = deleteEvents
       /\ messages' = messages]_vars

\* C8: a recipient client marks a message deleted for a received delete
\* event only after verifying the event's signature against the requester's
\* public key; an event without a key, or with a failing signature, deletes
\* nothing.
C8_OnlyVerifiedDeletes == \A u \in Users : \A a \in applied[u] : a.verified

\* C9: every delete request the chat room issues (handleDelete) and the
\* server stores and relays verifies at the recipient over the canonical
\* tuple (message id, chat id, requester id, timestamp) with the sender's true
\* public key.
C9_SignedIsVerified ==
  \A i \in 1 .. Len(deleteEvents) :
    deleteEvents[i].ui =>
      verifyDeleteEvent(ReceivedDeleteEvents(<<deleteEvents[i]>>)[1],
                        PublicKeyOf(SigningKeyOf(deleteEvents[i].senderId)))

(***************************************************************************)
(* Properties of createDeleteEvent / verifyDeleteEvent                     *)
(***************************************************************************)
EventFields(e) == <<e.messageId, e.chatId, e.senderId, e.timestamp>>

IsDeleted(store, messageId) ==
  /\ MessageExists(store, messageId)
  /\ FindMessage(store, messageId).contentType = "deleted"

\* C11: a delete request for a message that is already deleted is skipped: it
\* creates no second DeleteRecord and does not update the message again, so
\* the transition to deleted is applied at most once.
C11_DeleteAtMostOnce ==
  [][(IsNewDelete(dlast', dlast) /\ IsDeleted(messages, dlast'.messageId)) =>
       /\ deleteEvents' = deleteEvents
       /\ messages' = messages]_vars

(***************************************************************************)
(* Properties of processDeleteEvents                                       *)
(***************************************************************************)
IsValidEvent(event) ==
  /\ event.senderPublicKey # Null
  /\ verifyDeleteEvent([messageId |-> event.messageId, chatId |-> event.chatId,
                        senderId |-> event.senderId, signature |-> event.signature,
                        timestamp |-> event.timestamp], event.senderPublicKey)

\* C12: processDeleteEvents over valid records whose messages are already
\* deleted locally returns no id, calls onDelete for none and leaves the
\* local store as it is; applying a valid record a second time, in a later
\* call or later in the same batch, gives what applying it once gave.
C12_ReapplyIsNoOp ==
  [][/\ (/\ pd'.flip # pd.flip
         /\ \A i \in 1 .. Len(pd'.events) :
              /\ IsValidEvent(pd'.events[i])
              /\ pd'.events[i].messageId \notin localMessageStore) =>
          /\ pd'.deletedIds = <<>>
          /\ onDeleteCalls' = onDeleteCalls
          /\ localMessageStore' = localMessageStore
     /\ \A e \in {f \in EventInputs : IsValidEvent(f)} :
          LET once == processDeleteEvents(<<e>>, localMessageStore)
              again == processDeleteEvents(<<e>>, once.store)
              twice == processDeleteEvents(<<e, e>>, localMessageStore)
          IN /\ again.store = once.store
             /\ again.deletedIds = <<>>
             /\ again.calls = <<>>
             /\ twice = once]_vars

\* a valid record has deleted m1 locally (onDelete was called for it), and
\* the latest call applied a valid record for m1 again and reported nothing
C12_Witness ==
  /\ "m1" \notin localMessageStore
  /\ onDeleteCalls = <<"m1">>
  /\ Len(pd.events) = 1
  /\ IsValidEvent(pd.events[1])
  /\ pd.events[1].messageId = "m1"
  /\ pd.deletedIds = <<>>

\* C13: deleted is terminal: a stored message whose marker is "deleted" is
\* still stored after any step (send, delete, fetch), with its marker still
\* "deleted" and its ciphertext and nonce empty.
C13_DeletedIsTerminal ==
  [][\A i \in 1 .. Len(messages) :
       messages[i].contentType = "deleted" =>
         /\ i <= Len(messages')
         /\ messages'[i].id = messages[i].id
         /\ messages'[i].contentType = "deleted"
         /\ messages'[i].ciphertext = ""
         /\ messages'[i].iv = ""]_vars

\* C14: after every step, a stored message whose marker is "deleted" has
\* empty ciphertext and empty nonce and was already stored before the step:
\* no message is created by send with the marker "deleted".
C14_DeletedOnlyByDeletion ==
  [][\A i \in 1 .. Len(messages') :
       messages'[i].contentType = "deleted" =>
         /\ messages'[i].ciphertext = ""
         /\ messages'[i].iv = ""
         /\ i <= Len(messages)]_vars

\* the delete records of a chat that a member other than their requester
\* should have been sent
OwedDeletes(store, chatId, userId) ==
  {store[i].id : i \in {j \in 1 .. Len(store) :
                          store[j].chatId = chatId /\ store[j].senderId # userId}}

\* C15: when a member's fetch of a chat completes, every delete record stored
\* for that chat by another member has been sent to that member, in this
\* fetch or an earlier one, whoever fetched before.
C15_DeliveredToEveryMember ==
  [][(/\ dlast'.flip # dlast.flip
      /\ dlast'.op = "poll"
      /\ dlast'.status = 200) =>
       OwedDeletes(deleteEvents, dlast'.chat, dlast'.user) \subseteq
         received'[dlast'.user]]_vars

(***************************************************************************)
(* Properties of what the chat room sends                                  *)
(***************************************************************************)
Secrets == Plaintexts \cup InputValues \cup EncryptionKeys \cup PrivateKeys

RequestFields(r) ==
  {r.url, r.chatId, r.messageId, r.ciphertext, r.iv, r.contentType, r.signature,
   r.timestamp}

\* C16: no field of a request the chat room sends is a message plaintext, a
\* symmetric message key or a private signing key; the body of a send is the
\* ciphertext and nonce that encrypt gave for the typed text, and every
\* stored message holds such a ciphertext and no secret.
C16_NoPlaintextLeaves ==
  /\ RequestFields(creq) \cap Secrets = {}
  /\ creq.url = "/api/messages" =>
       \E iv \in Nonces :
         LET enc == encryptMessage(Trim(creq.typed), EncryptionKeyOf(creq.user), iv)
         IN creq.ciphertext = enc.ciphertext /\ creq.iv = enc.iv
  /\ \A i \in 1 .. Len(messages) :
       /\ {messages[i].ciphertext, messages[i].iv, messages[i].contentType} \cap Secrets = {}
       /\ messages[i].ciphertext # "" =>
            \E p \in Plaintexts, iv \in Nonces :
              messages[i].ciphertext =
                encryptMessage(p, EncryptionKeyOf(messages[i].senderId), iv).ciphertext

\* the chat room has just sent a typed text that needed trimming; the server
\* stored the message, and its ciphertext decrypts to the trimmed text under
\* the sender's key
C16_Witness ==
  /\ creq.url = "/api/messages"
  /\ creq.typed = "bye "
  /\ dlast.op = "send"
  /\ dlast.status = 200
  /\ \E i \in 1 .. Len(messages) :
       /\ messages[i].ciphertext = creq.ciphertext
       /\ decryptMessage(messages[i].ciphertext, messages[i].iv,
                         EncryptionKeyOf(creq.user)) = "bye"

(***************************************************************************)
(* Properties of the cleanup of the relay                                  *)
(***************************************************************************)
\* C20: when an accepted post_signal completes, the store holds no record
\* whose expiry is earlier than the time of the cleanup, consumed or not.
C20_PostPurgesExpired ==
  [][(/\ last'.flip # last.flip
      /\ last'.op = "post_signal"
      /\ last'.status = 200) =>
       \A e \in Range(signalEvents') : ~(e.expiresAt < now)]_vars

\* an accepted post has completed and a record that had never been fetched
\* is gone from the store, while all that is left has not expired
C20_Witness ==
  /\ last.op = "post_signal"
  /\ last.status = 200
  /\ \A p \in Procs : inflight[p].pc = "idle"
  /\ \E id \in 1 .. nextId :
       /\ id \notin Ids(signalEvents)
       /\ delivered[id] = 0
  /\ signalEvents # <<>>
  /\ \A e \in Range(signalEvents) : ~(e.expiresAt < now)

(***************************************************************************)
(* Properties of the call screen                                           *)
(***************************************************************************)
\* the caller u1 has posted its offer and polls, and the peer u2 has the
\* call screen open; offers do not expire while the clock stands
CallStarted ==
  /\ call["u1"].ui = "open"
  /\ call["u1"].step = "polling"
  /\ call["u2"].ui = "open"

CallSetUp ==
  /\ call["u2"].remoteDescription = OfferOf("u1")
  /\ \E e \in Range(signalEvents) :
       e.type = "answer" /\ e.fromUserId = "u2" /\ e.toUserId = "u1"
  /\ call["u1"].remoteDescription # Null

CallClosed == \E u \in Endpoints : call[u].ui = "closed"

\* C17: once the caller has started a call and the peer has the call screen
\* open in the same chat, with polls that keep succeeding the peer
\* eventually applies the offer and posts an answer, and the caller applies
\* that answer, unless an endpoint closes the call first.
C17_CallSetupCompletes == CallStarted ~> (CallSetUp \/ CallClosed)

\* C18: a poll that fails (a response that is not ok, or a network error)
\* yields no signals and leaves the call of every endpoint as it was, with
\* the interval of the polling endpoint still live.
C18_FailedPollKeepsCall ==
  [][(clast'.flip # clast.flip /\ clast'.outcome # "ok") =>
       /\ clast'.signals = <<>>
       /\ call' = call
       /\ call'[clast'.user].interval]_vars

\* the latest poll of an endpoint in a call failed on the network after the
\* server had handed out a signal addressed to it; its connection is open
\* and its interval live
C18_Witness ==
  /\ clast.outcome = "lost"
  /\ Len(last.recs) > 0
  /\ last.user = clast.user
  /\ call[clast.user].ui = "open"
  /\ call[clast.user].pc = "open"
  /\ call[clast.user].interval

\* C19: an endpoint that has closed the call has no live polling interval,
\* also when it closed while startCall was still under way.
C19_NoPollAfterClose ==
  \A u \in Endpoints : call[u].ui = "closed" => ~call[u].interval

(***************************************************************************)
(* Properties of the key store                                             *)
(***************************************************************************)
\* the state of an instance holds the key set `set`
HoldsKeys(h, set) ==
  /\ h.isReady
  /\ h.encryptionKey = set.encryptionKey
  /\ h.signingKeyPair = set.signingKeyPair
  /\ h.publicKeyExport = set.exportedPublicKey

\* C21: when a key set is persisted at the time initializeKeys reads the
\* store, the call ends there: the persisted record is left as it is, no
\* key is generated, no write is begun, and if the read succeeded the call
\* returns the persisted public key and the instance holds the persisted set.
C21_InitializeIdempotent ==
  [][\A i \in Hooks :
       (hook[i].pc = "load" /\ hook'[i].pc # "load" /\ idb # NoKeySet) =>
         /\ idb' = idb
         /\ keysGenerated' = keysGenerated
         /\ hook'[i].pc = "idle"
         /\ hook'[i].pending = NoKeySet
         /\ klast'.flip # klast.flip
         /\ klast'.hook = i
         /\ klast'.outcome \in {"loaded", "load-failed"}
         /\ klast'.outcome = "loaded" =>
              /\ klast'.result = idb.exportedPublicKey
              /\ HoldsKeys(hook'[i], idb)]_vars

\* the chat room has loaded the one key set the device ever generated, which
\* the security settings generated and hold too
C21_Witness ==
  /\ klast.op = "initializeKeys"
  /\ klast.hook = "chat"
  /\ klast.outcome = "loaded"
  /\ keysGenerated = 1
  /\ idb = KeySet(1)
  /\ HoldsKeys(hook["chat"], idb)
  /\ HoldsKeys(hook["settings"], idb)

\* C22: when handleReset ends with a key set, that set is persisted and held
\* by the instance that reset, it is none of the sets that were stored or
\* held when the reset began, and no ciphertext made under the symmetric key
\* held before decrypts under the new one.
C22_ResetGivesFreshKeys ==
  [][(/\ klast'.flip # klast.flip
      /\ klast'.op = "handleReset"
      /\ klast'.outcome \in {"generated", "loaded"}) =>
       LET h == hook'["settings"]
           prev == klast'.prev
       IN /\ idb' # NoKeySet
          /\ HoldsKeys(h, idb')
          /\ idb' # prev.stored
          /\ idb' \notin prev.known
          /\ prev.encryptionKey # Null =>
               /\ h.encryptionKey # prev.encryptionKey
               /\ \A p \in AllPlaintexts, n \in Nonces :
                    LET e == encryptMessage(p, prev.encryptionKey, n)
                    IN ~e.threw =>
                         decryptMessage(e.ciphertext, e.iv, h.encryptionKey) = Thrown]_vars

\* a reset of a device that had a key set stored and held has generated and
\* stored another
C22_Witness ==
  /\ klast.op = "handleReset"
  /\ klast.hook = "settings"
  /\ klast.outcome = "generated"
  /\ klast.prev.stored # NoKeySet
  /\ klast.prev.encryptionKey = klast.prev.stored.encryptionKey
  /\ idb # NoKeySet
  /\ idb # klast.prev.stored
  /\ HoldsKeys(hook["settings"], idb)

\* C23: when handleReset ends because the new key set could not be saved,
\* the key set that was persisted when the reset began is still persisted
\* and the instance still holds the key it held.
C23_NoPartialReset ==
  [][(/\ klast'.flip # klast.flip
      /\ klast'.op = "handleReset"
      /\ klast'.outcome = "save-failed"
      /\ klast'.prev.stored # NoKeySet) =>
       /\ idb' = klast'.prev.stored
       /\ hook'["settings"].encryptionKey = klast'.prev.encryptionKey]_vars

(***************************************************************************)
(* Properties of encryption                                                *)
(***************************************************************************)
\* C24: every call of encryptMessage returns a ciphertext, and decrypting
\* what it returned, as it is and under the same key, gives the plaintext.
C24_RoundTrip ==
  /\ \A j \in 1 .. Len(sealed) : ~sealed[j].threw
  /\ (opened.of # 0 /\ opened.alter = "none" /\ opened.key = sealed[opened.of].key) =>
       opened.result = sealed[opened.of].plaintext

\* C25: decryptMessage throws when the key is not the key of the encryption
\* or when a byte of the ciphertext is not the byte encryption gave, and what
\* it returns is never anything but the whole plaintext.
C25_DecryptAuthenticates ==
  opened.of # 0 =>
    LET e == sealed[opened.of]
    IN /\ (opened.key # e.key \/ opened.alter \in {"byte", "malformed"}) =>
            opened.result = Thrown
       /\ opened.result \in {Thrown, e.plaintext}

\* a ciphertext with one byte altered was given to decryptMessage with the
\* right key, after the same ciphertext had been made so that it decrypts
\* as it is
C25_Witness ==
  /\ opened.of # 0
  /\ opened.alter = "byte"
  /\ opened.key = sealed[opened.of].key
  /\ opened.result = Thrown
  /\ decryptMessage(sealed[opened.of].ciphertext, sealed[opened.of].iv, opened.key) =
       sealed[opened.of].plaintext
  /\ decryptMessage(sealed[opened.of].ciphertext, sealed[opened.of].iv,
                    IF opened.key = "ek1" THEN "ek2" ELSE "ek1") = Thrown

\* C26: two calls of encryptMessage with the same key that returned give
\* different nonces and different ciphertexts, whatever the plaintexts.
C26_FreshNonce ==
  \A i, j \in 1 .. Len(sealed) :
    (i < j /\ sealed[i].key = sealed[j].key /\ ~sealed[i].threw /\ ~sealed[j].threw) =>
      /\ sealed[i].iv # sealed[j].iv
      /\ sealed[i].ciphertext # sealed[j].ciphertext

\* the same text was encrypted twice under the same key by the same code
C26_Witness ==
  /\ Len(sealed) >= 2
  /\ sealed[1].key = sealed[2].key
  /\ sealed[1].plaintext = sealed[2].plaintext
  /\ sealed[1].impl = sealed[2].impl
  /\ ~sealed[1].threw
  /\ ~sealed[2].threw


\* C27: paging through a chat with the returned nextCursor and a fixed limit
\* returns every message of the chat exactly once: when the paging has
\* ended, no id is repeated among the pages received and every message the
\* chat held when the paging began is among them
C27_PagingExactlyOnce ==
  pager.done =>
    /\ \A i, j \in 1 .. Len(pager.ids) : i # j => pager.ids[i] # pager.ids[j]
    /\ \A id \in pager.owed : \E i \in 1 .. Len(pager.ids) : pager.ids[i] = id


\* C28: a message send by an authenticated user who is not a member of the
\* chat is rejected and has no effect: the response is not a success, no
\* message is stored and the chat record is not modified
C28_NonMemberSendRejected ==
  [][(/\ dlast'.flip # dlast.flip
      /\ dlast'.op = "send"
      /\ dlast'.user # Null
      /\ ~IsMember(dlast'.chat, dlast'.user))
     => /\ dlast'.status = 403
        /\ messages' = messages
        /\ chats' = chats]_vars

\* a non-member's send was rejected at a time later than the chat's
\* updatedAt, while the chat could still take a message
C28_Witness ==
  /\ dlast.op = "send"
  /\ dlast.user = "u3"
  /\ ~IsMember(dlast.chat, dlast.user)
  /\ dlast.status = 403
  /\ now > chats["c1"]
  /\ Len(messages) < MaxMessages


\* C29: verifyDeleteEvent returns a boolean for every input and never
\* throws: a record with a mismatching field, a malformed signature or a
\* malformed public key yields false
C29_VerifyNeverThrows ==
  sv.verdict # "none" =>
    /\ sv.verdict \in {"true", "false"}
    /\ (\/ EventFields(sv.ev) # EventFields(sv.orig)
        \/ sv.ev.signature \in NotBase64
        \/ sv.pk \in NotBase64
        \/ ~CanImportPublicKey(sv.pk)) => sv.verdict = "false"

\* a record whose signature is not base64 has been verified under the
\* signer's key, and the call returned false
C29_Witness ==
  /\ sv.verdict = "false"
  /\ sv.ev.signature \in NotBase64
  /\ EventFields(sv.ev) = EventFields(sv.orig)
  /\ sv.pk = PublicKeyOf(sv.sk)


RECURSIVE EarlyCandidate(_, _)
EarlyCandidate(c, signals) ==
  IF signals = <<>> THEN FALSE
  ELSE IF /\ Head(signals).type = "ice-candidate"
          /\ c.pc = "open"
          /\ c.remoteDescription = Null
    THEN TRUE
  ELSE LET acc == ApplySignal([c |-> c, threw |-> FALSE], Head(signals))
       IN IF acc.threw THEN FALSE ELSE EarlyCandidate(acc.c, Tail(signals))

\* C31: no endpoint applies an ICE candidate before its remote description
\* is set: in every poll of an endpoint, every candidate the loop comes to
\* finds the remote description set, whatever the order in which the relay
\* stored and returns the records
C31_NoCandidateBeforeRemote ==
  [][clast'.flip # clast.flip
       => ~EarlyCandidate(call[clast'.user], clast'.signals)]_vars


(***************************************************************************)
(* Properties of the stored delete records                                 *)
(***************************************************************************)
\* C32: every stored DeleteRecord is consistent with its target message: its
\* chat id is the chat id of the message it names
C32_DeleteRecordInChat ==
  \A i \in 1 .. Len(deleteEvents) :
    MessageExists(messages, deleteEvents[i].messageId)
      => FindMessage(messages, deleteEvents[i].messageId).chatId
           = deleteEvents[i].chatId


(***************************************************************************)
(* Properties of what a fetch does to the store                            *)
(***************************************************************************)
\* the store after differs from the store before in nothing but the
\* consumed flag, now set, of the records with these ids
OnlyConsumedSet(before, after, ids) ==
  /\ Len(after) = Len(before)
  /\ \A i \in 1 .. Len(before) :
       after[i] = IF before[i].id \in ids THEN [before[i] EXCEPT !.consumed = TRUE]
                  ELSE before[i]

\* C33: fetch_signals changes nothing but the consumed flag of the records
\* it returns: every other field of them and every record it does not return
\* are as they were, its query changes nothing at all, and in no step of any
\* handler does a consumed flag that is set become unset
C33_FetchOnlyConsumes ==
  [][/\ (last'.flip # last.flip /\ last'.op = "fetch_signals")
          => OnlyConsumedSet(signalEvents, signalEvents', Ids(last'.recs))
     /\ (\E p \in Procs : inflight[p].pc = "idle" /\ inflight'[p].pc = "get_mark")
          => signalEvents' = signalEvents
     /\ signalEvents' # signalEvents
          => \A e \in Range(signalEvents), f \in Range(signalEvents') :
               (e.id = f.id /\ e.consumed) => f.consumed]_vars

\* a fetch has returned one record and set its flag while the store holds
\* another record of the same mailbox, posted after the query, which it did
\* not return and which is still unconsumed
C33_Witness ==
  /\ IsFetch(last)
  /\ Len(last.recs) = 1
  /\ \E e, f \in Range(signalEvents) :
       /\ e.id \in Ids(last.recs) /\ e.consumed
       /\ f.id \notin Ids(last.recs) /\ ~f.consumed
       /\ f.chatId = last.chat /\ f.toUserId = last.user


\* C34: a record posted with no to-user (a broadcast) is delivered: a fetch
\* by another member of its chat, made before its expiry while it is not yet
\* consumed, returns it
C34_BroadcastDelivered ==
  [][(last'.flip # last.flip /\ IsFetch(last')) =>
       \A e \in Range(signalEvents) :
         (/\ e.chatId = last'.chat
          /\ e.toUserId = Null
          /\ e.fromUserId # last'.user
          /\ ~e.consumed
          /\ e.expiresAt > now) => e.id \in Ids(last'.recs)]_vars


\* C35: for any interleaving of initializeKeys calls on a device with no
\* stored keys, at most one key set is generated and kept: a call that ends
\* by saving the set it generated saves it to a store that is still empty,
\* and every instance that is ready then holds the persisted set
C35_OneKeySetKept ==
  [][(/\ klast'.flip # klast.flip
      /\ klast'.op = "initializeKeys"
      /\ klast'.outcome = "generated")
     => /\ idb = NoKeySet
        /\ \A j \in Hooks : hook'[j].isReady => HoldsKeys(hook'[j], idb')]_vars


\* C36: fetch_signals returns and consumes only records whose to-user is the
\* authenticated caller: what it returns is determined by the store, the
\* chat and the caller, whatever the userId parameter of the request, and a
\* record addressed to another user is neither returned nor consumed
C36_OwnMailboxOnly ==
  [][(last'.flip # last.flip /\ IsFetch(last')) =>
       /\ \A i \in 1 .. Len(last'.recs) : last'.recs[i].toUserId = last'.user
       /\ Ids(last'.recs) = {e.id : e \in Eligible(last'.chat, last'.user, now)}
       /\ \A e \in Range(signalEvents), f \in Range(signalEvents') :
            (e.id = f.id /\ ~e.consumed /\ f.consumed) => e.toUserId = last'.user]_vars

\* a member has fetched with another member's id as userId parameter and
\* got a record of its own, while a record addressed to that other member
\* is still stored, unconsumed and unexpired
C36_Witness ==
  /\ IsFetch(last)
  /\ last.to # Null
  /\ last.to # last.user
  /\ Len(last.recs) = 1
  /\ \E e \in Range(signalEvents) :
       e.chatId = last.chat /\ e.toUserId = last.to /\ ~e.consumed /\ e.expiresAt > now

\* C38: after a key import that the settings screen reports as successful,
\* the imported key is the device's active symmetric key (the key the
\* hook's encryptMessage and decryptMessage are bound to) and the key kept
\* in IndexedDB
C38_ImportedKeyActive ==
  [][(/\ klast'.flip # klast.flip
      /\ klast'.op = "handleImport"
      /\ klast'.outcome = "Key imported successfully!")
       => /\ hook'["settings"].encryptionKey = klast'.result
          /\ idb'.encryptionKey = klast'.result]_vars

\* the text decryptAll owes a message: its plaintext, or the notice where
\* decryptMessage throws
OwedText(msg, key) ==
  IF decryptMessage(msg.ciphertext, msg.iv, key) = Thrown THEN UnableToDecrypt
  ELSE decryptMessage(msg.ciphertext, msg.iv, key)

\* C37: a decryption failure is confined to its message: in a run of
\* decryptAll over the fetched messages, a message whose decryption fails
\* is shown as unable to decrypt, every other message that was to be
\* decrypted gets its plaintext, the entries that were there stay, and no
\* exception leaves decryptAll
C37_FailureConfined ==
  [][room'.flip # room.flip =>
       /\ ~room'.rejected
       /\ \A id \in DOMAIN room.decryptedMessages :
            /\ id \in DOMAIN room'.decryptedMessages
            /\ room'.decryptedMessages[id] = room.decryptedMessages[id]
       /\ \A i \in 1 .. Len(room.messages) :
            ToDecrypt(room.decryptedMessages, room.messages[i]) =>
              /\ room.messages[i].id \in DOMAIN room'.decryptedMessages
              /\ room'.decryptedMessages[room.messages[i].id]
                   = OwedText(room.messages[i], hook["chat"].encryptionKey)]_vars

\* one run of decryptAll has set the notice for a message and, for a
\* message after it in the batch, the plaintext
C37_Witness ==
  \E i, j \in 1 .. Len(room.messages) :
    /\ i < j
    /\ {room.messages[i].id, room.messages[j].id} \subseteq room.batch
    /\ room.decryptedMessages[room.messages[i].id] = UnableToDecrypt
    /\ room.decryptedMessages[room.messages[j].id] = RoomText

\* the calls of verifyMagicLink with a link's token that returned the user
Returned(l) ==
  {r \in DOMAIN auth.req : auth.req[r].token = l.token /\ auth.req[r].user # Null}

\* C39: a magic-link token authenticates at most once: whatever the
\* interleaving of the verification requests, at most one call of
\* verifyMagicLink with the token returns the user, at most one session is
\* created from it, and no call returns the user after the link's expiry
C39_TokenOnce ==
  \A l \in Range(auth.magicLinks) :
    /\ Cardinality(Returned(l)) <= 1
    /\ Cardinality({r \in Returned(l) : auth.req[r].session # Null}) <= 1
    /\ \A r \in Returned(l) : auth.req[r].at <= l.expiresAt

\* C40: after a successful password login or registration, a request that
\* carries the cookies set by that response is authenticated: getSession
\* returns the session created for that user
C40_LoginAuthenticates ==
  [][(/\ auth'.got.flip # auth.got.flip
      /\ auth.login.session # Null
      /\ auth.jar.session_token = auth.login.token)
       => /\ auth'.got.session = auth.login.session
          /\ auth'.got.userId = auth.login.userId]_vars

====
